---- MODULE Spec2Model ----
(***************************************************************************)
(* A model of agx: the wire client of the remote queue (agq_client.rs),    *)
(* the job envelope validator (job.rs) and the local pipeline executor     *)
(* (executor.rs, registry.rs).  Each component has its own specification:  *)
(* SpecWire, SpecEnvelope, SpecExec.  The variables of the components that *)
(* a specification does not drive keep their initial values.  SpecPlan     *)
(* applies the pure functions of plan.rs and of JobEnvelope::from_plan to  *)
(* the plans of a bounded set.                                             *)
(***************************************************************************)
EXTENDS Integers, Sequences, FiniteSets, TLC

VARIABLES
    \* ---- wire client (agq_client.rs) ----
    session_key,   \* AgqConfig.session_key: None or the key
    call,          \* the public operation in progress and its argument
    pc,            \* position of the call
    log,           \* what happened on the network during the call, in order
    result,        \* the Result the call returned
    \* ---- envelope validator (job.rs) ----
    envelope,      \* JobEnvelope.tasks
    max_tasks,     \* the argument of validate
    verdict,       \* what validate returned
    \* ---- executor (executor.rs) ----
    plan,          \* WorkflowPlan.tasks: the commands
    input,         \* InputSummary.content
    xpc,           \* position of execute
    stage,         \* index of the task of the loop
    tool,          \* the registry entry resolved for the stage
    data,          \* the data buffer
    child,         \* the running child process of the stage
    events,        \* registry lookups, spawns and exits, in order
    proc_stdout,   \* what execute wrote to the process's standard output
    proc_stderr,   \* what reached the process's standard error
    xresult,       \* the Result execute returned
    \* ---- plans (plan.rs, job.rs from_plan) ----
    wplan,         \* the WorkflowPlan the functions are applied to
    ppc,           \* which function was applied last
    nplan,         \* normalize_for_execution of wplan
    nplan2,        \* normalize_for_execution of nplan
    fargs,         \* the other arguments of JobEnvelope::from_plan
    jenv,          \* what JobEnvelope::from_plan returned
    \* ---- plan texts (plan.rs from_str, repair_unescaped_quotes) ----
    rtext,         \* the text the functions are applied to
    rpc,           \* position: in the repair loop, returned, or parsed
    rst,           \* the locals of repair_unescaped_quotes
    rprev,         \* the locals before the last iteration of its loop
    parsed,        \* what WorkflowPlan::from_str returned
    \* ---- bytes of the wire (agq_client.rs read_resp_value, resp_array) ----
    rbytes,        \* the bytes the reader is over
    spos,          \* the reader's position, the index of its next byte
    reads,         \* the calls of read_resp_value: where and what returned
    sitems,        \* the argument of resp_array, when it wrote the stream
    spc,           \* position: start, encoded, read or panicked
    \* ---- one stage over bounded pipes (executor.rs 37-51) ----
    pipe_data,     \* the number of bytes of the data buffer
    tool_kind,     \* how the child reads and writes
    wpc,           \* position of execute: write_all, wait_with_output, ok, err
    unwritten,     \* the bytes write_all has still to write
    stdin_pipe,    \* the bytes in the pipe to the child's stdin
    stdin_closed,  \* execute has dropped the child's stdin
    held,          \* the bytes the child has read and not yet written
    stdout_pipe,   \* the bytes in the pipe from the child's stdout
    cpc,           \* position of the child: run, flush, exited
    drained,       \* the bytes wait_with_output has read
    \* ---- commands of the command line (lib.rs) ----
    cli,           \* the command, its arguments and what its reads will meet
    cli_pc,        \* position of the handler
    locals,        \* the locals of the handler
    net,           \* what happened on connections to AGQ, in order
    meta_file,     \* the job id in the submission metadata file, if any
    printed,       \* what the command reported on its standard output
    cli_result,    \* the Result the handler returned
    \* ---- PLAN add and the plan buffer file (lib.rs, plan_buffer.rs) ----
    buffer_file,   \* the tasks of the plan in the plan buffer file
    adders,        \* the invocations of PLAN add: position and locals
    saved,         \* the task lists the invocations added, in the order of their saves
    invoked,       \* how many invocations there were
    \* ---- the REPL (repl.rs) ----
    session_plan,  \* state.plan.tasks
    resumed,       \* the tasks the session started with
    state_file,    \* the tasks of the plan in the state file
    plan_buffer,   \* the tasks of the plan in the plan buffer file of the session
    repl_pc,       \* position of run: at the prompt, saving on exit, returned
    commands,      \* how many lines the prompt has read
    last_cmd,      \* the last line read and the last command: plan before, result
    exit_by,       \* what ended the loop
    exit_writes,   \* the files written after the loop, in order
    run_result     \* the Result run returned

wireVars == <<session_key, call, pc, log, result>>
envVars  == <<envelope, max_tasks, verdict>>
execVars == <<plan, input, xpc, stage, tool, data, child, events,
              proc_stdout, proc_stderr, xresult>>
planVars == <<wplan, ppc, nplan, nplan2, fargs, jenv>>
textVars == <<rtext, rpc, rst, rprev, parsed>>
respVars == <<rbytes, spos, reads, sitems, spc>>
pipeVars == <<pipe_data, tool_kind, wpc, unwritten, stdin_pipe, stdin_closed, held,
              stdout_pipe, cpc, drained>>
cliVars  == <<cli, cli_pc, locals, net, meta_file, printed, cli_result>>
addVars  == <<buffer_file, adders, saved, invoked>>
replVars == <<session_plan, resumed, state_file, plan_buffer, repl_pc, commands, last_cmd,
              exit_by, exit_writes, run_result>>
vars     == <<wireVars, envVars, execVars, planVars, textVars, respVars, pipeVars,
              cliVars, addVars, replVars>>

None == [some |-> FALSE]
Some(x) == [some |-> TRUE, v |-> x]

(***************************************************************************)
(* Bounds of the model.                                                    *)
(***************************************************************************)
MaxRuns == 2
MaxItems == 2
MaxJobs == 2
MaxTasks == 2
MaxPlanLen == 3
MaxSteps == 2
MaxBody == 4

SeqsUpTo(S, n) == UNION {[1..k -> S] : k \in 0..n}

RECURSIVE SumSeq(_)
SumSeq(s) == IF s = <<>> THEN 0 ELSE s[1] + SumSeq(Tail(s))

(***************************************************************************)
(* Strings.  A text that the program only moves around is a record naming  *)
(* it; a JSON text is the record of the document it spells, so that        *)
(* decoding it as a type is a check of its shape.                          *)
(***************************************************************************)
Plain(name) == [kind |-> "plain", name |-> name, jc |-> 0, ids |-> <<>>]

\* {"action_id":..,"plan_id":..,"jobs_created":jc,"job_ids":ids}
ActionJson(jc, ids) == [kind |-> "action", name |-> "action", jc |-> jc, ids |-> ids]

\* {"plan_id":name,"task_count":..}
SummaryJson(name) == [kind |-> "summary", name |-> name, jc |-> 0, ids |-> <<>>]

\* {"tasks":[..]}
PlanJson(name) == [kind |-> "plan", name |-> name, jc |-> 0, ids |-> <<>>]

JobIdLists == SeqsUpTo({"j"}, MaxJobs)

Texts ==
    {Plain("job-1"), Plain("not json"), SummaryJson("p1"), SummaryJson("p2"),
     PlanJson("p1")}
    \cup {ActionJson(jc, ids) : jc \in -1..MaxJobs, ids \in JobIdLists}

(***************************************************************************)
(* RespValue (agq_client.rs 287-295).                                      *)
(***************************************************************************)
SimpleString(s) == [t |-> "SimpleString", s |-> s, i |-> 0, items |-> <<>>]
BulkString(s)   == [t |-> "BulkString", s |-> s, i |-> 0, items |-> <<>>]
Error(s)        == [t |-> "Error", s |-> s, i |-> 0, items |-> <<>>]
Integer(i)      == [t |-> "Integer", s |-> Plain(""), i |-> i, items |-> <<>>]
Array(items)    == [t |-> "Array", s |-> Plain(""), i |-> 0, items |-> items]
Null            == [t |-> "Null", s |-> Plain(""), i |-> 0, items |-> <<>>]

\* The values a server sends where the client expects a scalar.
ScalarValues ==
    {SimpleString(Plain("OK")), Error(Plain("ERR denied")), Integer(7), Null}
    \cup {BulkString(s) : s \in Texts}

\* The elements of the arrays a server sends.
ElementValues ==
    {SimpleString(Plain("w1")), BulkString(SummaryJson("p1")),
     BulkString(SummaryJson("p2")), BulkString(Plain("not json")),
     Integer(-12), Null}

RespValues == ScalarValues \cup {Array(a) : a \in SeqsUpTo(ElementValues, MaxItems)}

\* The replies to AUTH: every shape once.
AuthReplies ==
    {SimpleString(Plain("OK")), BulkString(Plain("OK")), Error(Plain("ERR denied")),
     Integer(7), Array(<<>>), Null}

(***************************************************************************)
(* Results.  An error string is the prefix of its format string and the    *)
(* values formatted into it.                                               *)
(***************************************************************************)
Ok(v) == [ok |-> TRUE, val |-> v, prefix |-> "", detail |-> <<>>]
Err(prefix, detail) == [ok |-> FALSE, val |-> None, prefix |-> prefix, detail |-> detail]
NoResult == [ok |-> FALSE, val |-> None, prefix |-> "(none)", detail |-> <<>>]

\* {:?} of a value: its variant (and fields, which the model leaves out).
Debug(v) == <<v.t>>

(***************************************************************************)
(* Plan ids.  An id is a string given by its runs: <<[ch, n], ...>> is n   *)
(* times the character ch, and so on, so that ids of 128 and 129           *)
(* characters are among the inputs.  The ids of the model are empty, or a  *)
(* first run of 1, 64 or 128 characters and then single characters.        *)
(***************************************************************************)
MaxPlanIdLen == 128

IdChars == {"a", "7", "_", "-", "\n", ";", "U+00E9"}

RunLens == {1, 64, 128}

PlanIds ==
    {<<>>} \cup
    {<<first>> \o rest :
        first \in [ch : IdChars, n : RunLens],
        rest \in SeqsUpTo([ch : IdChars, n : {1}], MaxRuns - 1)}

\* char::is_alphanumeric: Unicode Alphabetic or Numeric, e.g. U+00E9.
is_alphanumeric(c) == c \in {"a", "7", "U+00E9"}

\* char::len_utf8
len_utf8(c) == IF c = "U+00E9" THEN 2 ELSE 1

\* str::len: the length in bytes
str_len(id) == SumSeq([k \in DOMAIN id |-> id[k].n * len_utf8(id[k].ch)])

\* str::chars().count()
chars_count(id) == SumSeq([k \in DOMAIN id |-> id[k].n])

plan_id_chars_ok(id) ==
    \A k \in DOMAIN id :
        is_alphanumeric(id[k].ch) \/ id[k].ch = "_" \/ id[k].ch = "-"

\* get_plan's checks before it connects: None, or the error it returns.
get_plan_check(id) ==
    IF ~plan_id_chars_ok(id)
    THEN Some(Err("invalid plan_id: must contain only alphanumeric characters, underscore, or dash", <<>>))
    ELSE IF id = <<>>
    THEN Some(Err("plan_id cannot be empty", <<>>))
    ELSE IF str_len(id) > MaxPlanIdLen
    THEN Some(Err("plan_id too long (max 128 characters)", <<>>))
    ELSE None

(***************************************************************************)
(* Decoding of the payloads (serde_json::from_str at a type).              *)
(***************************************************************************)
\* ActionEnvelope: jobs_created is a usize.
decodes_ActionEnvelope(s) == s.kind = "action" /\ s.jc >= 0

decodes_PlanSummary(s) == s.kind = "summary"

decodes_WorkflowPlan(s) == s.kind = "plan"

\* ActionEnvelope::validate that only rejects too few ids.
ActionEnvelope_validate_fewer_only(e) ==
    IF e.jc > Len(e.ids)
    THEN Some(Err("ActionEnvelope validation failed: jobs_created != job_ids.len()",
                  <<e.jc, Len(e.ids)>>))
    ELSE None

\* ActionEnvelope::validate
ActionEnvelope_validate(e) ==
    IF e.jc # Len(e.ids)
    THEN Some(Err("ActionEnvelope validation failed: jobs_created != job_ids.len()",
                  <<e.jc, Len(e.ids)>>))
    ELSE None

\* i64::to_string
RECURSIVE NatDigits(_)
NatDigits(n) ==
    IF n < 10 THEN <<n>> ELSE Append(NatDigits(n \div 10), n % 10)

DigitChars == <<"0", "1", "2", "3", "4", "5", "6", "7", "8", "9">>

to_string(i) ==
    [kind |-> "decimal", name |-> IF i < 0 THEN "-" ELSE "", jc |-> 0,
     ids |-> [k \in DOMAIN NatDigits(IF i < 0 THEN -i ELSE i) |->
                 DigitChars[NatDigits(IF i < 0 THEN -i ELSE i)[k] + 1]]]

(***************************************************************************)
(* What each operation makes of the one response it reads.                 *)
(***************************************************************************)
\* submit_plan that takes every reply carrying a string for the job id.
submit_plan_response_error_ok(v) ==
    CASE v.t \in {"SimpleString", "BulkString", "Error"} -> Ok([job_id |-> v.s])
      [] OTHER -> Err("unexpected AGQ response: ", Debug(v))

submit_plan_response(v) ==
    CASE v.t \in {"SimpleString", "BulkString"} -> Ok([job_id |-> v.s])
      [] v.t = "Error" -> Err("AGQ error: ", <<v.s>>)
      [] OTHER -> Err("unexpected AGQ response: ", Debug(v))

submit_action_response(v) ==
    CASE v.t = "BulkString" ->
            IF ~decodes_ActionEnvelope(v.s)
            THEN Err("failed to parse ACTION.SUBMIT response: ", <<"serde">>)
            ELSE IF ActionEnvelope_validate(v.s).some
            THEN ActionEnvelope_validate(v.s).v
            ELSE Ok(v.s)
      [] v.t = "Error" -> Err("AGQ error: ", <<v.s>>)
      [] OTHER -> Err("unexpected AGQ response: ", Debug(v))

\* The loop of list_plans that steps over an item it cannot use.
RECURSIVE list_plans_items_skipping(_, _)
list_plans_items_skipping(items, plans) ==
    IF items = <<>> THEN Ok(plans)
    ELSE IF Head(items).t = "BulkString" /\ decodes_PlanSummary(Head(items).s)
    THEN list_plans_items_skipping(Tail(items), Append(plans, Head(items).s))
    ELSE list_plans_items_skipping(Tail(items), plans)

\* The loop of list_plans over the items: the first item that is no
\* BulkString or does not decode ends the call.
RECURSIVE list_plans_items(_, _)
list_plans_items(items, plans) ==
    IF items = <<>> THEN Ok(plans)
    ELSE IF Head(items).t = "BulkString"
    THEN IF decodes_PlanSummary(Head(items).s)
         THEN list_plans_items(Tail(items), Append(plans, Head(items).s))
         ELSE Err("failed to parse plan summary: ", <<"serde">>)
    ELSE Err("unexpected item type in PLAN.LIST response: ", Debug(Head(items)))

list_plans_response(v) ==
    CASE v.t = "Array" -> list_plans_items(v.items, <<>>)
      [] v.t = "Error" -> Err("AGQ error: ", <<v.s>>)
      [] OTHER -> Err("unexpected AGQ response: ", Debug(v))

get_plan_response(v) ==
    CASE v.t = "BulkString" ->
            IF decodes_WorkflowPlan(v.s) THEN Ok(v.s)
            ELSE Err("failed to parse plan: ", <<"serde">>)
      [] v.t = "Error" -> Err("AGQ error: ", <<v.s>>)
      [] OTHER -> Err("unexpected AGQ response: ", Debug(v))

\* filter_map of simple_query without the Integer arm.
RECURSIVE display_strings_strings_only(_)
display_strings_strings_only(items) ==
    IF items = <<>> THEN <<>>
    ELSE IF Head(items).t \in {"SimpleString", "BulkString"}
    THEN <<Head(items).s>> \o display_strings_strings_only(Tail(items))
    ELSE display_strings_strings_only(Tail(items))

\* filter_map of simple_query: strings as they are, integers in decimal,
\* anything else dropped.
RECURSIVE display_strings(_)
display_strings(items) ==
    IF items = <<>> THEN <<>>
    ELSE CASE Head(items).t \in {"SimpleString", "BulkString"} ->
                <<Head(items).s>> \o display_strings(Tail(items))
           [] Head(items).t = "Integer" ->
                <<to_string(Head(items).i)>> \o display_strings(Tail(items))
           [] OTHER -> display_strings(Tail(items))

\* OpsResponse::Jobs, Workers, QueueStats
wrap(op, strings) ==
    [variant |-> CASE op = "list_jobs" -> "Jobs"
                   [] op = "list_workers" -> "Workers"
                   [] OTHER -> "QueueStats",
     strings |-> strings]

simple_query_response(op, v) ==
    CASE v.t = "Array" -> Ok(wrap(op, display_strings(v.items)))
      [] v.t = "Error" -> Err("AGQ error: ", <<v.s>>)
      [] v.t \in {"SimpleString", "BulkString"} -> Ok(wrap(op, <<v.s>>))
      [] OTHER -> Err("unexpected AGQ response: ", Debug(v))

SimpleQueries == {"list_jobs", "list_workers", "queue_stats"}

Operations ==
    {"submit_plan", "submit_action", "list_plans", "get_plan"} \cup SimpleQueries

response(op, v) ==
    CASE op = "submit_plan" -> submit_plan_response(v)
      [] op = "submit_action" -> submit_action_response(v)
      [] op = "list_plans" -> list_plans_response(v)
      [] op = "get_plan" -> get_plan_response(v)
      [] OTHER -> simple_query_response(op, v)

\* The name of the command each operation sends.
command_name(op) ==
    CASE op = "submit_plan" -> "PLAN.SUBMIT"
      [] op = "submit_action" -> "ACTION.SUBMIT"
      [] op = "list_plans" -> "PLAN.LIST"
      [] op = "get_plan" -> "PLAN.GET"
      [] op = "list_jobs" -> "JOBS.LIST"
      [] op = "list_workers" -> "WORKERS.LIST"
      [] OTHER -> "QUEUE.STATS"

\* The items each operation hands to resp_array.
request(c) ==
    [cmd |-> command_name(c.op),
     args |-> IF c.op \in {"submit_plan", "submit_action", "get_plan"}
              THEN <<c.arg>> ELSE <<>>]

(***************************************************************************)
(* The wire client as a state machine.  A call is one of the seven public  *)
(* operations; between its network steps the server and the network        *)
(* choose what happens.                                                    *)
(***************************************************************************)
IdleCall == [op |-> "idle", arg |-> None]

Ev(ev, cmd, args, val) == [ev |-> ev, cmd |-> cmd, args |-> args, val |-> val]

ConnectEv == Ev("connect", "", <<>>, Null)

ConnectErrEv == Ev("connect_err", "", <<>>, Null)

WriteEv(req, ok) == Ev(IF ok THEN "write" ELSE "write_err", req.cmd, req.args, Null)

ReadEv(v) == Ev("read", "", <<>>, v)

ReadErrEv == Ev("read_err", "", <<>>, Null)

\* The errors of read_resp_value.
ReadErrors == {"failed to read RESP: ", "empty response from AGQ"}

SessionKeys == {None, Some(Plain("secret"))}

PlanJsons == {PlanJson("p1")}

ActionRequests == {Plain("{action}")}

InitWire ==
    /\ session_key \in SessionKeys
    /\ call = IdleCall
    /\ pc = "idle"
    /\ log = <<>>
    /\ result = NoResult

Begin(op, arg) ==
    /\ pc = "idle"
    /\ call' = [op |-> op, arg |-> arg]
    /\ pc' = "connect"
    /\ UNCHANGED <<session_key, log, result>>
    /\ UNCHANGED <<envVars, execVars, planVars, textVars, respVars, pipeVars, cliVars, addVars, replVars>>

submit_plan == \E json \in PlanJsons : Begin("submit_plan", json)

submit_action == \E json \in ActionRequests : Begin("submit_action", json)

list_plans == Begin("list_plans", None)

list_jobs == Begin("list_jobs", None)

list_workers == Begin("list_workers", None)

queue_stats == Begin("queue_stats", None)

get_plan ==
    \E id \in PlanIds :
        /\ pc = "idle"
        /\ call' = [op |-> "get_plan", arg |-> id]
        /\ IF get_plan_check(id).some
           THEN /\ result' = get_plan_check(id).v
                /\ pc' = "done"
           ELSE /\ result' = result
                /\ pc' = "connect"
        /\ UNCHANGED <<session_key, log>>
    /\ UNCHANGED <<envVars, execVars, planVars, textVars, respVars, pipeVars, cliVars, addVars, replVars>>

\* A connect that tries again when TcpStream::connect fails.
Connect_retry ==
    /\ pc = "connect"
    /\ \E outcome \in {"ok", "connect error: ", "failed to set read timeout: ",
                       "failed to set write timeout: "} :
        /\ log' = Append(log, IF outcome = "connect error: " THEN ConnectErrEv ELSE ConnectEv)
        /\ IF outcome = "ok"
           THEN /\ pc' = IF session_key.some THEN "auth_write" ELSE "cmd_write"
                /\ result' = result
           ELSE IF outcome = "connect error: "
           THEN /\ pc' = "connect"
                /\ result' = result
           ELSE /\ pc' = "done"
                /\ result' = Err(outcome, <<"io">>)
    /\ UNCHANGED <<session_key, call>>
    /\ UNCHANGED <<envVars, execVars, planVars, textVars, respVars, pipeVars, cliVars, addVars, replVars>>

\* connect_and_auth, lines 255-262: TcpStream::connect and the two deadlines.
Connect ==
    /\ pc = "connect"
    /\ \E outcome \in {"ok", "connect error: ", "failed to set read timeout: ",
                       "failed to set write timeout: "} :
        /\ log' = Append(log, IF outcome = "connect error: " THEN ConnectErrEv ELSE ConnectEv)
        /\ IF outcome = "ok"
           THEN /\ pc' = IF session_key.some THEN "auth_write" ELSE "cmd_write"
                /\ result' = result
           ELSE /\ pc' = "done"
                /\ result' = Err(outcome, <<"io">>)
    /\ UNCHANGED <<session_key, call>>
    /\ UNCHANGED <<envVars, execVars, planVars, textVars, respVars, pipeVars, cliVars, addVars, replVars>>

\* connect_and_auth, lines 266-273: write AUTH <key>.
SendAuth ==
    /\ pc = "auth_write"
    /\ \E ok \in BOOLEAN :
        /\ log' = Append(log, WriteEv([cmd |-> "AUTH", args |-> <<session_key.v>>], ok))
        /\ IF ok
           THEN /\ pc' = "auth_read"
                /\ result' = result
           ELSE /\ pc' = "done"
                /\ result' = Err("failed to send AUTH: ", <<"io">>)
    /\ UNCHANGED <<session_key, call>>
    /\ UNCHANGED <<envVars, execVars, planVars, textVars, respVars, pipeVars, cliVars, addVars, replVars>>

\* auth_response with one error for every reply that is no success.
auth_response_one_error(v) ==
    CASE v.t \in {"SimpleString", "BulkString"} -> None
      [] OTHER -> Some(Err("AUTH failed: ", Debug(v)))

\* auth_response with the Error arm missing: an Error reply lets the call go on.
auth_response_error_passes(v) ==
    CASE v.t \in {"SimpleString", "BulkString", "Error"} -> None
      [] OTHER -> Some(Err("unexpected AUTH response: ", Debug(v)))

\* What connect_and_auth makes of the reply to AUTH: None to go on, or the
\* error it returns.
auth_response(v) ==
    CASE v.t \in {"SimpleString", "BulkString"} -> None
      [] v.t = "Error" -> Some(Err("AUTH failed: ", <<v.s>>))
      [] OTHER -> Some(Err("unexpected AUTH response: ", Debug(v)))

\* connect_and_auth, lines 275-280: read the reply to AUTH.
ReadAuth ==
    /\ pc = "auth_read"
    /\ \/ \E e \in ReadErrors :
            /\ log' = Append(log, ReadErrEv)
            /\ pc' = "done"
            /\ result' = Err(e, <<>>)
       \/ \E v \in AuthReplies :
            /\ log' = Append(log, ReadEv(v))
            /\ IF auth_response(v).some
               THEN /\ pc' = "done"
                    /\ result' = auth_response(v).v
               ELSE /\ pc' = "cmd_write"
                    /\ result' = result
    /\ UNCHANGED <<session_key, call>>
    /\ UNCHANGED <<envVars, execVars, planVars, textVars, respVars, pipeVars, cliVars, addVars, replVars>>

\* The write_all of the operation's own command.
SendCommand ==
    /\ pc = "cmd_write"
    /\ \E ok \in BOOLEAN :
        /\ log' = Append(log, WriteEv(request(call), ok))
        /\ IF ok
           THEN /\ pc' = "cmd_read"
                /\ result' = result
           ELSE /\ pc' = "done"
                /\ result' = Err("failed to send ", <<command_name(call.op), "io">>)
    /\ UNCHANGED <<session_key, call>>
    /\ UNCHANGED <<envVars, execVars, planVars, textVars, respVars, pipeVars, cliVars, addVars, replVars>>

\* read_resp_value of the one response, and the operation's match on it.
ReadResponse ==
    /\ pc = "cmd_read"
    /\ \/ \E e \in ReadErrors :
            /\ log' = Append(log, ReadErrEv)
            /\ result' = Err(e, <<>>)
       \/ \E v \in RespValues :
            /\ log' = Append(log, ReadEv(v))
            /\ result' = response(call.op, v)
    /\ pc' = "done"
    /\ UNCHANGED <<session_key, call>>
    /\ UNCHANGED <<envVars, execVars, planVars, textVars, respVars, pipeVars, cliVars, addVars, replVars>>

\* The call has returned and the connection is dropped; the client keeps
\* nothing but its configuration.
Return ==
    /\ pc = "done"
    /\ pc' = "idle"
    /\ call' = IdleCall
    /\ log' = <<>>
    /\ result' = NoResult
    /\ UNCHANGED session_key
    /\ UNCHANGED <<envVars, execVars, planVars, textVars, respVars, pipeVars, cliVars, addVars, replVars>>

(***************************************************************************)
(* JobEnvelope::validate (job.rs).  A task is its task_number and its      *)
(* input_from_task; validate reads nothing else.                           *)
(***************************************************************************)
JobTask(n, ref) == [task_number |-> n, input_from_task |-> ref]

TaskNumbers == 0..(MaxTasks + 1)

InputRefs == {None} \cup {Some(r) : r \in TaskNumbers}

Envelopes == SeqsUpTo([task_number : TaskNumbers, input_from_task : InputRefs], MaxTasks)

MaxTasksArgs == 0..(MaxTasks + 1)

\* task_number + 1 on u32.  validate adds 1 to a task number only after
\* every pair before it was found contiguous from 1, so the sum is at most
\* the number of tasks plus 1 and never wraps at 2^32.
u32_add(a, b) == a + b

VOk == [err |-> "Ok", arg |-> 0]
VErr(name, arg) == [err |-> name, arg |-> arg]
NotRun == [err |-> "(not run)", arg |-> 0]

\* The scan with > for >=: a task may name itself as its input.
RECURSIVE scan_inputs_self(_, _, _)
scan_inputs_self(tasks, k, seen) ==
    IF k > Len(tasks) THEN VOk
    ELSE IF /\ tasks[k].input_from_task.some
            /\ \/ tasks[k].input_from_task.v > tasks[k].task_number
               \/ tasks[k].input_from_task.v \notin (seen \cup {tasks[k].task_number})
    THEN VErr("BadInputReference", tasks[k].input_from_task.v)
    ELSE scan_inputs_self(tasks, k + 1, seen \cup {tasks[k].task_number})

\* lines 113-121: the scan of the input references from task k on.
RECURSIVE scan_inputs(_, _, _)
scan_inputs(tasks, k, seen) ==
    IF k > Len(tasks) THEN VOk
    ELSE IF /\ tasks[k].input_from_task.some
            /\ \/ tasks[k].input_from_task.v >= tasks[k].task_number
               \/ tasks[k].input_from_task.v \notin (seen \cup {tasks[k].task_number})
    THEN VErr("BadInputReference", tasks[k].input_from_task.v)
    ELSE scan_inputs(tasks, k + 1, seen \cup {tasks[k].task_number})

\* lines 107-111
windows_ok(tasks) ==
    \A k \in 1..(Len(tasks) - 1) :
        u32_add(tasks[k].task_number, 1) = tasks[k + 1].task_number

\* validate with the length check moved before the check of the first number.
validate_length_first(tasks, max) ==
    IF tasks = <<>> THEN VErr("EmptyTasks", 0)
    ELSE IF Len(tasks) > max THEN VErr("TooManyTasks", Len(tasks))
    ELSE IF tasks[1].task_number # 1 THEN VErr("FirstTaskNotOne", tasks[1].task_number)
    ELSE IF ~windows_ok(tasks) THEN VErr("NonMonotonicTasks", 0)
    ELSE scan_inputs(tasks, 1, {})

validate(tasks, max) ==
    IF tasks = <<>> THEN VErr("EmptyTasks", 0)
    ELSE IF tasks[1].task_number # 1 THEN VErr("FirstTaskNotOne", tasks[1].task_number)
    ELSE IF Len(tasks) > max THEN VErr("TooManyTasks", Len(tasks))
    ELSE IF ~windows_ok(tasks) THEN VErr("NonMonotonicTasks", 0)
    ELSE scan_inputs(tasks, 1, {})

InitEnvelope ==
    /\ envelope \in Envelopes
    /\ max_tasks \in MaxTasksArgs
    /\ verdict = NotRun

\* envelope.validate(max_tasks): it takes &self.
Validate ==
    /\ verdict = NotRun
    /\ verdict' = validate(envelope, max_tasks)
    /\ UNCHANGED <<envelope, max_tasks>>
    /\ UNCHANGED <<wireVars, execVars, planVars, textVars, respVars, pipeVars, cliVars, addVars, replVars>>

(***************************************************************************)
(* The tool registry (registry.rs).                                        *)
(***************************************************************************)
Tool(id, command, ok) == [id |-> id, command |-> command, ok_exit_codes |-> ok]

TOOLS ==
    <<Tool("sort", "sort", {0}), Tool("uniq", "uniq", {0}), Tool("grep", "grep", {0, 1}),
      Tool("cut", "cut", {0}), Tool("tr", "tr", {0}), Tool("jq", "jq", {0})>>

NoTool == Tool("", "", {})

\* iter().find(..): the first tool with that id.
find_by_id(id) ==
    IF \E k \in DOMAIN TOOLS : TOOLS[k].id = id
    THEN [some |-> TRUE,
          v |-> TOOLS[CHOOSE k \in DOMAIN TOOLS :
                        /\ TOOLS[k].id = id
                        /\ \A j \in 1..(k - 1) : TOOLS[j].id # id]]
    ELSE [some |-> FALSE, v |-> NoTool]

(***************************************************************************)
(* Executor::execute (executor.rs).  Bytes are one-character strings.      *)
(***************************************************************************)
PlanCommands == {"sort", "grep", "rm"}

\* What the tasks of a plan say besides the command: nothing, or that each
\* takes the output of task 1 and may run for no time at all.
TaskMetas ==
    {[input_from_task |-> None, timeout_secs |-> 300],
     [input_from_task |-> Some(1), timeout_secs |-> 0]}

Plans ==
    {[k \in DOMAIN p |->
        [command |-> p[k], args |-> <<>>,
         input_from_task |-> m.input_from_task, timeout_secs |-> m.timeout_secs]]
     : p \in SeqsUpTo(PlanCommands, MaxPlanLen), m \in TaskMetas}

Contents == {<<>>, <<"x">>, <<"x", "y">>}

StageOutputs == {<<"x">>, <<"z">>}

StderrTexts == {<<>>, <<" ", "e", "\n">>}

\* ExitStatus: exited with a code, or ended by a signal.
Exited(n) == [exited |-> TRUE, n |-> n]
Signaled(n) == [exited |-> FALSE, n |-> n]

ExitStatuses == {Exited(0), Exited(1), Exited(2), Signaled(9)}

\* ExitStatus::code
code(status) == IF status.exited THEN Some(status.n) ELSE [some |-> FALSE, v |-> 0]

\* ExitStatus::success
success(status) == status.exited /\ status.n = 0

\* char::is_whitespace: the Unicode White_Space characters, of which
\* U+00A0 is one that JSON does not take for whitespace.
Whitespace == {" ", "\n", "\t", "\r", "U+00A0"}

\* str::trim
RECURSIVE trim_start(_)
trim_start(s) ==
    IF s # <<>> /\ Head(s) \in Whitespace THEN trim_start(Tail(s)) ELSE s

RECURSIVE trim_end(_)
trim_end(s) ==
    IF s # <<>> /\ s[Len(s)] \in Whitespace
    THEN trim_end(SubSeq(s, 1, Len(s) - 1)) ELSE s

trim(s) == trim_end(trim_start(s))

\* lines 37-40: how execute sets up the child's streams.  Command leaves a
\* stream it was not told about inherited from the parent.
child_stdio == [stdin |-> "piped", stdout |-> "piped", stderr |-> "inherit"]

\* wait_with_output that captures nothing.
captured_nothing(stream, text) == <<>>

\* Child::wait_with_output: a stream is captured only if it is piped.
captured(stream, text) == IF child_stdio[stream] = "piped" THEN text ELSE <<>>

\* is_ok that takes every exit for a success.
is_ok_always(t, status) == TRUE

\* is_ok by zero-equality: status.success() whatever the tool.
is_ok_zero(t, status) == success(status)

\* lines 53-58
is_ok(t, status) ==
    IF code(status).some THEN code(status).v \in t.ok_exit_codes ELSE success(status)

NoChild == [running |-> FALSE, command |-> ""]

\* An event of the run: a registry lookup, a spawn, a failed spawn, write or
\* wait, or the exit of a child with its status and what it wrote to its
\* standard error.
XEv(ev, k, command) ==
    [ev |-> ev, stage |-> k, command |-> command, status |-> [exited |-> TRUE, n |-> 0],
     err |-> <<>>, bytes |-> <<>>]

ExitEv(k, command, status, err) ==
    [ev |-> "exit", stage |-> k, command |-> command, status |-> status, err |-> err,
     bytes |-> <<>>]

\* The bytes a child took from its standard input ("stdin") or wrote to its
\* standard output ("stdout").
IoEv(ev, k, command, bytes) ==
    [ev |-> ev, stage |-> k, command |-> command, status |-> [exited |-> TRUE, n |-> 0],
     err |-> <<>>, bytes |-> bytes]

WriteRec(bytes, ok) == [bytes |-> bytes, ok |-> ok]

Prefixes(s) == {SubSeq(s, 1, n) : n \in 0..(Len(s) - 1)}

ExecIdle ==
    /\ plan = <<>>
    /\ input = <<>>
    /\ xpc = "idle"
    /\ stage = 0
    /\ tool = NoTool
    /\ data = <<>>
    /\ child = NoChild
    /\ events = <<>>
    /\ proc_stdout = <<>>
    /\ proc_stderr = <<>>
    /\ xresult = NoResult

InitExec == ExecIdle

\* WriteStdout that reports success without writing.
WriteStdout_nothing(bytes, prefix_ok, prefix_err) ==
    /\ proc_stdout' = proc_stdout
    /\ xresult' = Ok(None)

\* write_all to the process's standard output: all of the bytes, or an
\* error after some of them.
WriteStdout(bytes, prefix_ok, prefix_err) ==
    \/ /\ proc_stdout' = Append(proc_stdout, WriteRec(bytes, TRUE))
       /\ xresult' = Ok(None)
    \/ \E part \in Prefixes(bytes) \cup {<<>>} :
       /\ proc_stdout' = Append(proc_stdout, WriteRec(part, FALSE))
       /\ xresult' = Err(prefix_err, <<"io">>)

\* lines 21-27: the call, the empty plan, the copy of the input.
execute ==
    /\ xpc = "idle"
    /\ \E p \in Plans, content \in Contents :
        /\ plan' = p
        /\ input' = content
        /\ IF p = <<>>
           THEN /\ WriteStdout(content, "", "failed to write to STDOUT: ")
                /\ xpc' = "done"
                /\ UNCHANGED <<stage, data>>
           ELSE /\ data' = content
                /\ stage' = 1
                /\ xpc' = "stage"
                /\ UNCHANGED <<proc_stdout, xresult>>
    /\ UNCHANGED <<tool, child, events, proc_stderr>>
    /\ UNCHANGED <<wireVars, envVars, planVars, textVars, respVars, pipeVars, cliVars, addVars, replVars>>

\* lines 30-41: resolve the task's command and spawn the child.
StageSpawn ==
    /\ xpc = "stage"
    /\ LET found == find_by_id(plan[stage].command) IN
       IF ~found.some
       THEN /\ events' = Append(events, XEv("lookup", stage, plan[stage].command))
            /\ xresult' = Err("unknown tool in plan: ", <<plan[stage].command>>)
            /\ xpc' = "done"
            /\ UNCHANGED <<tool, child>>
       ELSE \/ /\ events' = events \o
                     <<XEv("lookup", stage, plan[stage].command),
                       XEv("spawn", stage, found.v.command)>>
               /\ tool' = found.v
               /\ child' = [running |-> TRUE, command |-> found.v.command]
               /\ xpc' = "write"
               /\ UNCHANGED xresult
            \/ /\ events' = events \o
                     <<XEv("lookup", stage, plan[stage].command),
                       XEv("spawn_err", stage, found.v.command)>>
               /\ tool' = found.v
               /\ xresult' = Err("failed to start command ", <<found.v.command, "io">>)
               /\ xpc' = "done"
               /\ UNCHANGED child
    /\ UNCHANGED <<plan, input, stage, data, proc_stdout, proc_stderr>>
    /\ UNCHANGED <<wireVars, envVars, planVars, textVars, respVars, pipeVars, cliVars, addVars, replVars>>

\* lines 43-47: write the whole buffer to the child's stdin.
StageWrite ==
    /\ xpc = "write"
    /\ \/ /\ xpc' = "wait"
          /\ UNCHANGED xresult
          /\ events' = Append(events, IoEv("stdin", stage, tool.command, data))
       \/ /\ xpc' = "done"
          /\ xresult' = Err("failed to write to ", <<tool.command, "io">>)
          /\ events' = Append(events, XEv("write_err", stage, tool.command))
    /\ UNCHANGED <<plan, input, stage, tool, data, child, proc_stdout, proc_stderr>>
    /\ UNCHANGED <<wireVars, envVars, planVars, textVars, respVars, pipeVars, cliVars, addVars, replVars>>

\* lines 49-72: wait for the child, judge its status, take its stdout.
StageWait ==
    /\ xpc = "wait"
    /\ \/ /\ xpc' = "done"
          /\ xresult' = Err("failed to wait for ", <<tool.command, "io">>)
          /\ events' = Append(events, XEv("wait_err", stage, tool.command))
          /\ UNCHANGED <<stage, data, child, proc_stderr>>
       \/ \E status \in ExitStatuses, out \in StageOutputs, err \in StderrTexts :
          /\ events' = events \o <<IoEv("stdout", stage, tool.command, out),
                                   ExitEv(stage, tool.command, status, err)>>
          /\ child' = NoChild
          /\ proc_stderr' = IF child_stdio.stderr = "inherit"
                            THEN Append(proc_stderr, err) ELSE proc_stderr
          /\ IF ~is_ok(tool, status)
             THEN /\ xresult' = Err("command failed with status ",
                                    <<tool.command, status, trim(captured("stderr", err))>>)
                  /\ xpc' = "done"
                  /\ UNCHANGED <<stage, data>>
             ELSE /\ data' = captured("stdout", out)
                  /\ IF stage < Len(plan)
                     THEN stage' = stage + 1 /\ xpc' = "stage"
                     ELSE stage' = stage /\ xpc' = "output"
                  /\ UNCHANGED xresult
    /\ UNCHANGED <<plan, input, tool, proc_stdout>>
    /\ UNCHANGED <<wireVars, envVars, planVars, textVars, respVars, pipeVars, cliVars, addVars, replVars>>

\* lines 74-76: the final buffer goes to the process's standard output.
WriteOutput ==
    /\ xpc = "output"
    /\ WriteStdout(data, "", "failed to write final output to STDOUT: ")
    /\ xpc' = "done"
    /\ UNCHANGED <<plan, input, stage, tool, data, child, events, proc_stderr>>
    /\ UNCHANGED <<wireVars, envVars, planVars, textVars, respVars, pipeVars, cliVars, addVars, replVars>>

\* execute has returned.
ExecReturn ==
    /\ xpc = "done"
    /\ xpc' = "idle"
    /\ plan' = <<>>
    /\ input' = <<>>
    /\ stage' = 0
    /\ tool' = NoTool
    /\ data' = <<>>
    /\ child' = NoChild
    /\ events' = <<>>
    /\ proc_stdout' = <<>>
    /\ proc_stderr' = <<>>
    /\ xresult' = NoResult
    /\ UNCHANGED <<wireVars, envVars, planVars, textVars, respVars, pipeVars, cliVars, addVars, replVars>>

(***************************************************************************)
(* The specifications.                                                     *)
(***************************************************************************)
(***************************************************************************)
(* WorkflowPlan (plan.rs 3-22), normalize_for_execution (plan.rs 49-76)    *)
(* and JobEnvelope::from_plan (job.rs 60-90).                              *)
(***************************************************************************)
PlanStep(n, command, args, timeout_secs, ref) ==
    [task_number |-> n, command |-> command, args |-> args,
     timeout_secs |-> timeout_secs, input_from_task |-> ref]

WorkflowPlan(id, description, tasks) ==
    [plan_id |-> id, plan_description |-> description, tasks |-> tasks]

\* The commands normalize_for_execution names, as texts.
UniqCommand == <<"u", "n", "i", "q">>

SortCommand == <<"s", "o", "r", "t">>

\* fn default_timeout
default_timeout == 300

\* The task numbers a plan arrives with: zero, one, and a number past the
\* length of every plan of the model.
StepNumbers == {0, 1, MaxSteps + 2}

\* What a step carries besides its number.
StepBodies ==
    {PlanStep(0, UniqCommand, <<>>, default_timeout, None),
     PlanStep(0, UniqCommand, <<<<"-", "c">>>>, 5, Some(MaxSteps + 2)),
     PlanStep(0, SortCommand, <<>>, default_timeout, None),
     PlanStep(0, SortCommand, <<<<"-", "r">>>>, 60, Some(1))}

PlanSteps == {[b EXCEPT !.task_number = n] : b \in StepBodies, n \in StepNumbers}

OptionalTexts == {None, Some(<<"o", "w", "n">>)}

WorkflowPlans ==
    {WorkflowPlan(id, d, tasks) :
        id \in OptionalTexts, d \in OptionalTexts, tasks \in SeqsUpTo(PlanSteps, MaxSteps)}

\* (index + 1) as u32 for the k-th task; a Vec of 2^32 tasks is out of
\* reach, so the cast never truncates.
index_plus_one(k) == k

\* normalize_for_execution without its renumbering loop.
normalize_for_execution_no_renumber(p) ==
    IF Len(p.tasks) = 1 /\ p.tasks[1].command = UniqCommand
    THEN [p EXCEPT !.tasks = <<PlanStep(1, SortCommand, <<>>, 300, None),
                               PlanStep(2, UniqCommand, <<>>, 300, Some(1))>>]
    ELSE p

\* normalize_for_execution that puts a sort before every trailing uniq.
normalize_for_execution_trailing_uniq(p) ==
    LET n == Len(p.tasks)
        tasks == IF n >= 1 /\ p.tasks[n].command = UniqCommand
                 THEN SubSeq(p.tasks, 1, n - 1)
                      \o <<PlanStep(n, SortCommand, <<>>, 300, None),
                           PlanStep(n + 1, UniqCommand, <<>>, 300, Some(n))>>
                 ELSE p.tasks
    IN  [p EXCEPT !.tasks =
            [k \in DOMAIN tasks |-> [tasks[k] EXCEPT !.task_number = index_plus_one(k)]]]

\* normalize_for_execution whose rewrite keeps the args and the timeout of
\* the uniq task.
normalize_for_execution_keep_args(p) ==
    LET tasks == IF Len(p.tasks) = 1 /\ p.tasks[1].command = UniqCommand
                 THEN <<PlanStep(1, SortCommand, <<>>, 300, None),
                        PlanStep(2, UniqCommand, p.tasks[1].args, p.tasks[1].timeout_secs, Some(1))>>
                 ELSE p.tasks
    IN  [p EXCEPT !.tasks =
            [k \in DOMAIN tasks |-> [tasks[k] EXCEPT !.task_number = index_plus_one(k)]]]

\* WorkflowPlan::normalize_for_execution
normalize_for_execution(p) ==
    LET tasks == IF Len(p.tasks) = 1 /\ p.tasks[1].command = UniqCommand
                 THEN <<PlanStep(1, SortCommand, <<>>, 300, None),
                        PlanStep(2, UniqCommand, <<>>, 300, Some(1))>>
                 ELSE p.tasks
    IN  [p EXCEPT !.tasks =
            [k \in DOMAIN tasks |-> [tasks[k] EXCEPT !.task_number = index_plus_one(k)]]]

\* from_plan that prefers the caller's plan_id and description.
from_plan_override_first(p, job_id, plan_id_override, plan_description_override) ==
    [job_id |-> job_id,
     plan_id |-> plan_id_override,
     plan_description |-> IF plan_description_override.some
                          THEN plan_description_override ELSE p.plan_description,
     tasks |-> [k \in DOMAIN p.tasks |->
                  [p.tasks[k] EXCEPT !.task_number = index_plus_one(k)]]]

\* JobEnvelope::from_plan
from_plan(p, job_id, plan_id_override, plan_description_override) ==
    [job_id |-> job_id,
     \* plan.plan_id.unwrap_or(plan_id_override)
     plan_id |-> IF p.plan_id.some THEN p.plan_id.v ELSE plan_id_override,
     \* plan.plan_description.or(plan_description_override)
     plan_description |-> IF p.plan_description.some
                          THEN p.plan_description ELSE plan_description_override,
     tasks |-> [k \in DOMAIN p.tasks |->
                  [task_number |-> index_plus_one(k),
                   command |-> p.tasks[k].command,
                   args |-> p.tasks[k].args,
                   timeout_secs |-> p.tasks[k].timeout_secs,
                   input_from_task |-> p.tasks[k].input_from_task]]]

\* The job_id, plan_id_override and plan_description_override of a call.
FromPlanArgs ==
    [job_id : {<<"j", "1">>}, plan_id_override : {<<"p", "1">>},
     plan_description_override : {None, Some(<<"d">>)}]

NoArgs == [job_id |-> <<>>, plan_id_override |-> <<>>, plan_description_override |-> None]

PlanIdle ==
    /\ wplan = WorkflowPlan(None, None, <<>>)
    /\ ppc = "start"
    /\ nplan = None
    /\ nplan2 = None
    /\ fargs = NoArgs
    /\ jenv = None

InitPlan ==
    /\ wplan \in WorkflowPlans
    /\ ppc = "start"
    /\ nplan = None
    /\ nplan2 = None
    /\ fargs = NoArgs
    /\ jenv = None

\* parsed.normalize_for_execution()
Normalize ==
    /\ ppc = "start"
    /\ nplan' = Some(normalize_for_execution(wplan))
    /\ ppc' = "normalized"
    /\ UNCHANGED <<wplan, nplan2, fargs, jenv>>
    /\ UNCHANGED <<wireVars, envVars, execVars, textVars, respVars, pipeVars, cliVars, addVars, replVars>>

\* normalize_for_execution applied to its own result.
NormalizeAgain ==
    /\ ppc = "normalized"
    /\ nplan2' = Some(normalize_for_execution(nplan.v))
    /\ ppc' = "renormalized"
    /\ UNCHANGED <<wplan, nplan, fargs, jenv>>
    /\ UNCHANGED <<wireVars, envVars, execVars, textVars, respVars, pipeVars, cliVars, addVars, replVars>>

\* JobEnvelope::from_plan(plan, job_id, plan_id_override, plan_description_override)
FromPlan ==
    /\ ppc = "start"
    /\ \E a \in FromPlanArgs :
        /\ fargs' = a
        /\ jenv' = Some(from_plan(wplan, a.job_id, a.plan_id_override,
                                  a.plan_description_override))
    /\ ppc' = "built"
    /\ UNCHANGED <<wplan, nplan, nplan2>>
    /\ UNCHANGED <<wireVars, envVars, execVars, textVars, respVars, pipeVars, cliVars, addVars, replVars>>

(***************************************************************************)
(* Plan texts (plan.rs 78-366).  A text is the sequence of its characters. *)
(***************************************************************************)
\* char::is_whitespace
is_whitespace(c) == c \in Whitespace

\* The index of the first character of text at or after i that is no
\* whitespace, 0 when there is none: the lookahead loops of
\* repair_unescaped_quotes.
RECURSIVE next_non_ws(_, _)
next_non_ws(text, i) ==
    IF i > Len(text) THEN 0
    ELSE IF is_whitespace(text[i]) THEN next_non_ws(text, i + 1)
    ELSE i

\* The locals of repair_unescaped_quotes: pos is the index of the character
\* chars.next() gives next.
RepairState(pos, output, in_string, escaped) ==
    [pos |-> pos, output |-> output, in_string |-> in_string, escaped |-> escaped]

RepairStart == RepairState(1, <<>>, FALSE, FALSE)

\* One iteration that drops the '/' after every quote it escapes.
repair_iteration_always_drops(text, st) ==
    LET ch == text[st.pos]
        after == st.pos + 1
    IN  IF ch = "\""
        THEN IF ~st.in_string
             THEN RepairState(after, Append(st.output, ch), TRUE, st.escaped)
             ELSE IF st.escaped
             THEN RepairState(after, Append(st.output, ch), st.in_string, FALSE)
             ELSE LET j == next_non_ws(text, after)
                      should_escape == j # 0 /\ text[j] \notin {",", "]", "}", ":"}
                  IN  IF should_escape
                      THEN RepairState(IF after <= Len(text) /\ text[after] = "/"
                                       THEN after + 1 ELSE after,
                                       st.output \o <<"\\", "\"">>,
                                       st.in_string, st.escaped)
                      ELSE RepairState(after, Append(st.output, "\""), FALSE, st.escaped)
        ELSE RepairState(after, Append(st.output, ch), st.in_string,
                         IF ~st.in_string THEN FALSE
                         ELSE ch = "\\" /\ ~st.escaped)

\* One iteration that escapes every quote met inside a string that is not
\* itself escaped.
repair_iteration_escapes_all(text, st) ==
    LET ch == text[st.pos]
        after == st.pos + 1
    IN  IF ch = "\""
        THEN IF ~st.in_string
             THEN RepairState(after, Append(st.output, ch), TRUE, st.escaped)
             ELSE IF st.escaped
             THEN RepairState(after, Append(st.output, ch), st.in_string, FALSE)
             ELSE RepairState(after, st.output \o <<"\\", "\"">>,
                              st.in_string, st.escaped)
        ELSE RepairState(after, Append(st.output, ch), st.in_string,
                         IF ~st.in_string THEN FALSE
                         ELSE ch = "\\" /\ ~st.escaped)

\* One iteration for which a colon after a quote does not close the string.
repair_iteration_colon_escapes(text, st) ==
    LET ch == text[st.pos]
        after == st.pos + 1
    IN  IF ch = "\""
        THEN IF ~st.in_string
             THEN RepairState(after, Append(st.output, ch), TRUE, st.escaped)
             ELSE IF st.escaped
             THEN RepairState(after, Append(st.output, ch), st.in_string, FALSE)
             ELSE LET j == next_non_ws(text, after)
                      should_escape == j # 0 /\ text[j] \notin {",", "]", "}"}
                      slash == after <= Len(text) /\ text[after] = "/"
                      k == IF slash THEN next_non_ws(text, after + 1) ELSE 0
                      consume == slash /\ k # 0 /\ text[k] \in {",", "]", "}"}
                  IN  IF should_escape
                      THEN RepairState(IF consume THEN after + 1 ELSE after,
                                       st.output \o <<"\\", "\"">>,
                                       st.in_string, st.escaped)
                      ELSE RepairState(after, Append(st.output, "\""), FALSE, st.escaped)
        ELSE RepairState(after, Append(st.output, ch), st.in_string,
                         IF ~st.in_string THEN FALSE
                         ELSE ch = "\\" /\ ~st.escaped)

\* One iteration of the while loop of repair_unescaped_quotes (plan.rs
\* 290-363) on the character at st.pos.
repair_iteration(text, st) ==
    LET ch == text[st.pos]
        after == st.pos + 1
    IN  IF ch = "\""
        THEN IF ~st.in_string
             THEN RepairState(after, Append(st.output, ch), TRUE, st.escaped)
             ELSE IF st.escaped
             THEN RepairState(after, Append(st.output, ch), st.in_string, FALSE)
             ELSE LET j == next_non_ws(text, after)
                      \* Some(',') | Some(']') | Some('}') | Some(':') | None => false
                      should_escape == j # 0 /\ text[j] \notin {",", "]", "}", ":"}
                      \* matches!(chars.peek(), Some('/'))
                      slash == after <= Len(text) /\ text[after] = "/"
                      k == IF slash THEN next_non_ws(text, after + 1) ELSE 0
                      \* matches!(next_char, ',' | ']' | '}') => chars.next()
                      consume == slash /\ k # 0 /\ text[k] \in {",", "]", "}"}
                  IN  IF should_escape
                      THEN RepairState(IF consume THEN after + 1 ELSE after,
                                       st.output \o <<"\\", "\"">>,
                                       st.in_string, st.escaped)
                      ELSE RepairState(after, Append(st.output, "\""), FALSE, st.escaped)
        ELSE RepairState(after, Append(st.output, ch), st.in_string,
                         IF ~st.in_string THEN FALSE
                         ELSE ch = "\\" /\ ~st.escaped)

\* The only element of a set of one element.  { e(x) : x \in {v} } has v
\* worked out once, however often e uses it.
Only(S) == CHOOSE x \in S : TRUE

\* n passes through the head of the while loop from st: the loop is left,
\* and st stays as it is, once chars.next() gives None.  The passes are
\* taken half by half, so that a long text is not a deep recursion.
RECURSIVE repair_from(_, _, _)
repair_from(text, st, n) ==
    IF n = 0 \/ st.pos > Len(text) THEN st
    ELSE IF n = 1 THEN repair_iteration(text, st)
    ELSE Only({repair_from(text, half, n - (n \div 2))
               : half \in {repair_from(text, st, n \div 2)}})

\* fn repair_unescaped_quotes: every iteration takes a character or more,
\* so Len(text) passes end the loop.
repair_unescaped_quotes(text) == repair_from(text, RepairStart, Len(text)).output

(***************************************************************************)
(* serde_json::from_str.  The text is parsed to the document it spells and *)
(* the document is decoded at the type asked for; serde_json does both in  *)
(* one pass, with the same texts accepted.  Its recursion limit of 128 is  *)
(* beyond the texts of the model.                                          *)
(***************************************************************************)
JsonWhitespace == {" ", "\n", "\t", "\r"}

\* Characters below U+0020, which a JSON string cannot hold unescaped.
ControlChars == {"\n", "\t", "\r", "U+0008", "U+000C"}

DigitSet == {DigitChars[k] : k \in DOMAIN DigitChars}

NoNumber == [neg |-> FALSE, digits |-> <<>>, float |-> FALSE]

JNull == [t |-> "null", b |-> FALSE, s |-> <<>>, num |-> NoNumber, items |-> <<>>, keys |-> <<>>]

JBool(b) == [JNull EXCEPT !.t = "bool", !.b = b]

JString(s) == [JNull EXCEPT !.t = "string", !.s = s]

JNumber(neg, digits, float) ==
    [JNull EXCEPT !.t = "number", !.num = [neg |-> neg, digits |-> digits, float |-> float]]

JArray(items) == [JNull EXCEPT !.t = "array", !.items = items]

\* An object: its keys in order and, in items, their values.
JObject(keys, items) == [JNull EXCEPT !.t = "object", !.keys = keys, !.items = items]

\* What a parsing step returns: the value and the index after it.
PFail == [ok |-> FALSE, v |-> JNull, next |-> 0]

POk(v, next) == [ok |-> TRUE, v |-> v, next |-> next]

RECURSIVE skip_ws(_, _)
skip_ws(text, i) ==
    IF i <= Len(text) /\ text[i] \in JsonWhitespace THEN skip_ws(text, i + 1) ELSE i

\* The characters an escape in a string stands for.
unescape(c) ==
    CASE c = "b" -> "U+0008"
      [] c = "f" -> "U+000C"
      [] c = "n" -> "\n"
      [] c = "r" -> "\r"
      [] c = "t" -> "\t"
      [] OTHER -> c

HexDigits == DigitSet \cup {"a", "b", "c", "d", "e", "f", "A", "B", "C", "D", "E", "F"}

\* The rest of a string from index j, after its opening quote.  A \u escape
\* is taken for the one character U+XXXX, whatever its digits.
ScanState(j, acc, ok, done) == [j |-> j, acc |-> acc, ok |-> ok, done |-> done]

\* One character, or one escape, of a string whose opening quote is read.
scan_step(text, st) ==
    LET j == st.j
        acc == st.acc
        Fail == ScanState(j, acc, FALSE, TRUE)
    IN  CASE st.done -> st
          [] j > Len(text) -> Fail
          [] text[j] = "\"" -> ScanState(j + 1, acc, TRUE, TRUE)
          [] text[j] = "\\" ->
                CASE j + 1 > Len(text) -> Fail
                  [] text[j + 1] \in {"\"", "\\", "/", "b", "f", "n", "r", "t"} ->
                        ScanState(j + 2, Append(acc, unescape(text[j + 1])), TRUE, FALSE)
                  [] /\ text[j + 1] = "u"
                     /\ j + 5 <= Len(text)
                     /\ \A k \in (j + 2)..(j + 5) : text[k] \in HexDigits ->
                        ScanState(j + 6, Append(acc, "U+XXXX"), TRUE, FALSE)
                  [] OTHER -> Fail
          [] text[j] \in ControlChars -> Fail
          [] OTHER -> ScanState(j + 1, Append(acc, text[j]), TRUE, FALSE)

\* n steps from st, taken half by half.
RECURSIVE scan_steps(_, _, _)
scan_steps(text, st, n) ==
    IF n = 0 \/ st.done THEN st
    ELSE IF n = 1 THEN scan_step(text, st)
    ELSE Only({scan_steps(text, half, n - (n \div 2))
               : half \in {scan_steps(text, st, n \div 2)}})

\* The string whose opening quote is before j, acc being what is read of
\* it: every step takes a character or more, so the steps below reach the
\* closing quote, an error or the end of the text.
scan_string(text, j, acc) ==
    Only({IF end.done /\ end.ok THEN POk(JString(end.acc), end.j) ELSE PFail
          : end \in {scan_steps(text, ScanState(j, acc, TRUE, FALSE),
                                Len(text) + 2 - j)}})

\* The index after the digits that start at i.
RECURSIVE digits_end(_, _)
digits_end(text, i) ==
    IF i <= Len(text) /\ text[i] \in DigitSet THEN digits_end(text, i + 1) ELSE i

\* A number: -? (0 | [1-9][0-9]*) (. [0-9]+)? ([eE] [+-]? [0-9]+)?
parse_number(text, i) ==
    LET neg == text[i] = "-"
        s == IF neg THEN i + 1 ELSE i
        e == digits_end(text, s)
        int_ok == e > s /\ (text[s] = "0" => e = s + 1)
        has_frac == e <= Len(text) /\ text[e] = "."
        fe == IF has_frac THEN digits_end(text, e + 1) ELSE e
        frac_ok == has_frac => fe > e + 1
        has_exp == fe <= Len(text) /\ text[fe] \in {"e", "E"}
        xs == IF has_exp /\ fe + 1 <= Len(text) /\ text[fe + 1] \in {"+", "-"}
              THEN fe + 2 ELSE fe + 1
        xe == IF has_exp THEN digits_end(text, xs) ELSE fe
        exp_ok == has_exp => xe > xs
    IN  IF int_ok /\ frac_ok /\ exp_ok
        THEN POk(JNumber(neg, SubSeq(text, s, e - 1), has_frac \/ has_exp), xe)
        ELSE PFail

\* Does text hold the characters of word from index i on?
starts_with_at(text, i, word) ==
    /\ i + Len(word) - 1 <= Len(text)
    /\ SubSeq(text, i, i + Len(word) - 1) = word

RECURSIVE parse_value(_, _)
RECURSIVE parse_elements(_, _, _)
RECURSIVE parse_members(_, _, _, _)

\* The value that starts at index i, which is no whitespace.
parse_value(text, i) ==
    IF i > Len(text) THEN PFail
    ELSE CASE text[i] = "\"" -> scan_string(text, i + 1, <<>>)
           [] text[i] = "[" ->
                LET j == skip_ws(text, i + 1)
                IN  IF j <= Len(text) /\ text[j] = "]"
                    THEN POk(JArray(<<>>), j + 1)
                    ELSE parse_elements(text, j, <<>>)
           [] text[i] = "{" ->
                LET j == skip_ws(text, i + 1)
                IN  IF j <= Len(text) /\ text[j] = "}"
                    THEN POk(JObject(<<>>, <<>>), j + 1)
                    ELSE parse_members(text, j, <<>>, <<>>)
           [] text[i] \in DigitSet \cup {"-"} -> parse_number(text, i)
           [] starts_with_at(text, i, <<"t", "r", "u", "e">>) -> POk(JBool(TRUE), i + 4)
           [] starts_with_at(text, i, <<"f", "a", "l", "s", "e">>) -> POk(JBool(FALSE), i + 5)
           [] starts_with_at(text, i, <<"n", "u", "l", "l">>) -> POk(JNull, i + 4)
           [] OTHER -> PFail

\* The elements of an array from index i on, after those of acc.
parse_elements(text, i, acc) ==
    Only({IF ~r.ok THEN PFail
          ELSE Only({IF k > Len(text) THEN PFail
                     ELSE IF text[k] = "]" THEN POk(JArray(Append(acc, r.v)), k + 1)
                     ELSE IF text[k] = ","
                     THEN parse_elements(text, skip_ws(text, k + 1), Append(acc, r.v))
                     ELSE PFail
                     : k \in {skip_ws(text, r.next)}})
          : r \in {parse_value(text, i)}})

\* The members of an object from index i on.
parse_members(text, i, keys, vals) ==
    IF i > Len(text) \/ text[i] # "\"" THEN PFail
    ELSE Only({
            IF ~key.ok THEN PFail
            ELSE Only({
                IF c > Len(text) THEN PFail
                ELSE IF text[c] # ":" THEN PFail
                ELSE Only({
                    IF ~r.ok THEN PFail
                    ELSE Only({
                        IF k > Len(text) THEN PFail
                        ELSE IF text[k] = "}"
                        THEN POk(JObject(Append(keys, key.v.s), Append(vals, r.v)), k + 1)
                        ELSE IF text[k] = ","
                        THEN parse_members(text, skip_ws(text, k + 1),
                                           Append(keys, key.v.s), Append(vals, r.v))
                        ELSE PFail
                        : k \in {skip_ws(text, r.next)}})
                    : r \in {parse_value(text, skip_ws(text, c + 1))}})
                : c \in {skip_ws(text, key.next)}})
            : key \in {scan_string(text, i + 1, <<>>)}})

\* The document of a text: one value with nothing but whitespace around it.
parse_json(text) ==
    Only({IF r.ok /\ skip_ws(text, r.next) = Len(text) + 1 THEN r ELSE PFail
          : r \in {parse_value(text, skip_ws(text, 1))}})

(***************************************************************************)
(* Decoding a document at a type (the Deserialize impls serde derives).    *)
(***************************************************************************)
DFail == [ok |-> FALSE, v |-> None]

DOk(v) == [ok |-> TRUE, v |-> v]

as_String(j) == IF j.t = "string" THEN DOk(j.s) ELSE DFail

RECURSIVE digits_value(_)
digits_value(digits) ==
    IF digits = <<>> THEN 0
    ELSE 10 * digits_value(SubSeq(digits, 1, Len(digits) - 1))
         + (CHOOSE d \in 0..9 : DigitChars[d + 1] = digits[Len(digits)])

\* u32: a number without sign, fraction or exponent, not above u32::MAX.
\* Numbers of ten digits and more are taken for too large: the model holds
\* none, and the model checker's integers end below u32::MAX.
as_u32(j) ==
    IF j.t = "number" /\ ~j.num.neg /\ ~j.num.float /\ Len(j.num.digits) <= 9
    THEN DOk(digits_value(j.num.digits))
    ELSE DFail

as_Option(dec(_), j) ==
    IF j.t = "null" THEN DOk(None)
    ELSE IF dec(j).ok THEN DOk(Some(dec(j).v)) ELSE DFail

as_Option_u32(j) == as_Option(as_u32, j)

as_Option_String(j) == as_Option(as_String, j)

as_Vec(dec(_), j) ==
    IF j.t = "array" /\ \A k \in DOMAIN j.items : dec(j.items[k]).ok
    THEN DOk([k \in DOMAIN j.items |-> dec(j.items[k]).v])
    ELSE DFail

as_Vec_String(j) == as_Vec(as_String, j)

\* The field of a struct in the document: its member of that name in an
\* object (n counts its occurrences), its position in an array.
field(j, name, position) ==
    IF j.t = "object"
    THEN LET occ == {k \in DOMAIN j.keys : j.keys[k] = name}
         IN  [n |-> Cardinality(occ),
              v |-> IF occ = {} THEN JNull ELSE j.items[CHOOSE k \in occ : TRUE]]
    ELSE [n |-> IF position <= Len(j.items) THEN 1 ELSE 0,
          v |-> IF position <= Len(j.items) THEN j.items[position] ELSE JNull]

\* A struct is decoded from an object, or from an array of no more elements
\* than it has fields.
is_struct(j, fields) ==
    j.t = "object" \/ (j.t = "array" /\ Len(j.items) <= fields)

\* A field without #[serde(default)]: a second occurrence is an error, and
\* so is its absence.
required(dec(_), f) == IF f.n = 1 THEN dec(f.v) ELSE DFail

\* A field with #[serde(default)].
defaulted(dec(_), f, default) ==
    IF f.n = 0 THEN DOk(default)
    ELSE IF f.n = 1 THEN dec(f.v)
    ELSE DFail

\* An Option field without #[serde(default)]: None when an object lacks
\* it, an error when an array ends before it.
optional(dec(_), j, f) ==
    IF f.n = 0 THEN (IF j.t = "object" THEN DOk(None) ELSE DFail)
    ELSE IF f.n = 1 THEN dec(f.v)
    ELSE DFail

\* PlanStep (plan.rs 12-22)
as_PlanStep(j) ==
    LET task_number == required(as_u32, field(j, <<"t","a","s","k","_","n","u","m","b","e","r">>, 1))
        command == required(as_String, field(j, <<"c","o","m","m","a","n","d">>, 2))
        args == defaulted(as_Vec_String, field(j, <<"a","r","g","s">>, 3), <<>>)
        timeout_secs == defaulted(as_u32, field(j, <<"t","i","m","e","o","u","t","_","s","e","c","s">>, 4),
                                  default_timeout)
        input_from_task ==
            optional(as_Option_u32, j,
                     field(j, <<"i","n","p","u","t","_","f","r","o","m","_","t","a","s","k">>, 5))
    IN  IF /\ is_struct(j, 5)
           /\ task_number.ok /\ command.ok /\ args.ok /\ timeout_secs.ok
           /\ input_from_task.ok
        THEN DOk(PlanStep(task_number.v, command.v, args.v, timeout_secs.v,
                          input_from_task.v))
        ELSE DFail

as_Vec_PlanStep(j) == as_Vec(as_PlanStep, j)

\* WorkflowPlan (plan.rs 3-10)
as_WorkflowPlan(j) ==
    LET id == optional(as_Option_String, j, field(j, <<"p","l","a","n","_","i","d">>, 1))
        description ==
            optional(as_Option_String, j,
                     field(j, <<"p","l","a","n","_","d","e","s","c","r","i","p","t","i","o","n">>, 2))
        tasks == required(as_Vec_PlanStep, field(j, <<"t","a","s","k","s">>, 3))
    IN  IF is_struct(j, 3) /\ id.ok /\ description.ok /\ tasks.ok
        THEN DOk(WorkflowPlan(id.v, description.v, tasks.v))
        ELSE DFail

\* LegacyPlanStep (plan.rs 150-159)
as_LegacyPlanStep(j) ==
    LET cmd == required(as_String, field(j, <<"c","m","d">>, 1))
        args == defaulted(as_Vec_String, field(j, <<"a","r","g","s">>, 2), <<>>)
        input_from_step ==
            defaulted(as_Option_u32,
                      field(j, <<"i","n","p","u","t","_","f","r","o","m","_","s","t","e","p">>, 3), None)
        timeout_secs ==
            defaulted(as_Option_u32,
                      field(j, <<"t","i","m","e","o","u","t","_","s","e","c","s">>, 4), None)
    IN  IF is_struct(j, 4) /\ cmd.ok /\ args.ok /\ input_from_step.ok /\ timeout_secs.ok
        THEN DOk([cmd |-> cmd.v, args |-> args.v,
                  input_from_step |-> input_from_step.v,
                  timeout_secs |-> timeout_secs.v])
        ELSE DFail

as_Vec_LegacyPlanStep(j) == as_Vec(as_LegacyPlanStep, j)

\* LegacyWorkflowPlan (plan.rs 145-148)
as_LegacyWorkflowPlan(j) ==
    LET plan_field == required(as_Vec_LegacyPlanStep, field(j, <<"p","l","a","n">>, 1))
    IN  IF is_struct(j, 1) /\ plan_field.ok THEN DOk(plan_field.v) ELSE DFail

\* SimpleWorkflowPlan (plan.rs 28-31)
as_SimpleWorkflowPlan(j) ==
    LET plan_field == required(as_Vec_String, field(j, <<"p","l","a","n">>, 1))
    IN  IF is_struct(j, 1) /\ plan_field.ok THEN DOk(plan_field.v) ELSE DFail

(***************************************************************************)
(* WorkflowPlan::from_str (plan.rs 44-47) and what it calls.               *)
(***************************************************************************)
\* The plan of a list of legacy steps (plan.rs 162-177, 218-230).
from_legacy_steps(steps) ==
    WorkflowPlan(None, None,
        [k \in DOMAIN steps |->
            PlanStep(index_plus_one(k), steps[k].cmd, steps[k].args,
                     IF steps[k].timeout_secs.some THEN steps[k].timeout_secs.v ELSE 300,
                     steps[k].input_from_step)])

\* The plan of a list of commands (plan.rs 182-197, 236-245).
from_commands(cmds) ==
    WorkflowPlan(None, None,
        [k \in DOMAIN cmds |-> PlanStep(index_plus_one(k), cmds[k], <<>>, 300, None)])

\* The canonical form with the task numbers that are 0 filled in (plan.rs
\* 135-143).
from_canonical(p) ==
    [p EXCEPT !.tasks =
        [k \in DOMAIN p.tasks |->
            IF p.tasks[k].task_number = 0
            THEN [p.tasks[k] EXCEPT !.task_number = index_plus_one(k)]
            ELSE p.tasks[k]]]

\* The attempts with the array of legacy steps tried before the array of
\* canonical tasks.
decoded_as_known_form_legacy_array_first(j) ==
        IF as_WorkflowPlan(j).ok THEN Some(from_canonical(as_WorkflowPlan(j).v))
        ELSE IF as_LegacyWorkflowPlan(j).ok
        THEN Some(from_legacy_steps(as_LegacyWorkflowPlan(j).v))
        ELSE IF as_SimpleWorkflowPlan(j).ok
        THEN Some(from_commands(as_SimpleWorkflowPlan(j).v))
        ELSE IF as_Vec_LegacyPlanStep(j).ok
        THEN Some(from_legacy_steps(as_Vec_LegacyPlanStep(j).v))
        ELSE IF as_Vec_PlanStep(j).ok
        THEN Some(WorkflowPlan(None, None, as_Vec_PlanStep(j).v))
        ELSE IF as_Vec_String(j).ok THEN Some(from_commands(as_Vec_String(j).v))
        ELSE None

\* The attempts of try_all_known_forms in their order: the plan of the
\* first of the six forms the document decodes as.
decoded_as_known_form(j) ==
        IF as_WorkflowPlan(j).ok THEN Some(from_canonical(as_WorkflowPlan(j).v))
        ELSE IF as_LegacyWorkflowPlan(j).ok
        THEN Some(from_legacy_steps(as_LegacyWorkflowPlan(j).v))
        ELSE IF as_SimpleWorkflowPlan(j).ok
        THEN Some(from_commands(as_SimpleWorkflowPlan(j).v))
        ELSE IF as_Vec_PlanStep(j).ok
        THEN Some(WorkflowPlan(None, None, as_Vec_PlanStep(j).v))
        ELSE IF as_Vec_LegacyPlanStep(j).ok
        THEN Some(from_legacy_steps(as_Vec_LegacyPlanStep(j).v))
        ELSE IF as_Vec_String(j).ok THEN Some(from_commands(as_Vec_String(j).v))
        ELSE None

\* fn try_all_known_forms
try_all_known_forms(text) ==
    Only({IF r.ok THEN decoded_as_known_form(r.v) ELSE None : r \in {parse_json(text)}})

\* The value of depth in extract_first_json_value after the character at
\* index i, when the first bracket is at index start: one up for every
\* opening bracket, one down for every closing one.
depth_after(trimmed, start, i) ==
    Cardinality({k \in start..i : trimmed[k] \in {"{", "["}})
    - Cardinality({k \in start..i : trimmed[k] \in {"}", "]"}})

\* extract_first_json_value that takes the text from its first bracket to
\* its end.
extract_first_json_value_to_end(text) ==
    LET trimmed == trim(text)
        opening == {i \in DOMAIN trimmed : trimmed[i] \in {"{", "["}}
        start == CHOOSE i \in opening : \A k \in opening : i <= k
    IN  IF opening = {} THEN None
        ELSE Some(SubSeq(trimmed, start, Len(trimmed)))

\* fn extract_first_json_value: from the first bracket to the bracket at
\* which depth comes back to 0.
extract_first_json_value(text) ==
    LET trimmed == trim(text)
        opening == {i \in DOMAIN trimmed : trimmed[i] \in {"{", "["}}
        start == CHOOSE i \in opening : \A k \in opening : i <= k
        closing == {i \in DOMAIN trimmed :
                        i > start /\ depth_after(trimmed, start, i) = 0}
        end == CHOOSE i \in closing : \A k \in closing : i <= k
    IN  IF opening = {} THEN None
        ELSE IF closing = {} THEN None
        ELSE Some(SubSeq(trimmed, start, end))

starts_with(s, word) == starts_with_at(s, 1, word)

\* str::lines: the text cut at its line feeds, a carriage return before
\* one dropped, no last line after a final line feed.
lines(s) ==
    LET feeds == {i \in DOMAIN s : s[i] = "\n"}
        starts == {i \in {1} \cup {f + 1 : f \in feeds} : i <= Len(s)}
        start(k) == CHOOSE a \in starts : Cardinality({b \in starts : b < a}) = k - 1
        stop(a) == IF \E f \in feeds : f >= a
                   THEN (CHOOSE f \in feeds : f >= a /\ \A g \in feeds : g >= a => f <= g) - 1
                   ELSE Len(s)
        line(a) == LET e == stop(a)
                   IN  IF e >= a /\ s[e] = "\r" /\ (e < Len(s))
                       THEN SubSeq(s, a, e - 1) ELSE SubSeq(s, a, e)
    IN  [k \in 1..Cardinality(starts) |-> line(start(k))]

\* Three grave accents; the character is written by its code point.
Fence == <<"U+0060", "U+0060", "U+0060">>

\* The loop of strip_markdown_fence over the lines after the first.
RECURSIVE fence_body(_, _)
fence_body(ls, body) ==
    IF ls = <<>> THEN body
    ELSE IF starts_with(trim_start(Head(ls)), Fence) THEN body
    ELSE fence_body(Tail(ls),
                    (IF body # <<>> THEN Append(body, "\n") ELSE body) \o Head(ls))

\* fn strip_markdown_fence
strip_markdown_fence(value) ==
    LET trimmed == trim(value)
    IN  IF ~starts_with(trimmed, Fence) THEN trimmed
        ELSE fence_body(Tail(lines(trimmed)), <<>>)

\* What from_str returns: the plan, or the error of serde_json; via names
\* the attempt of parse_any_form that gave the plan.
Parsed(p, via) == [ok |-> TRUE, plan |-> p, via |-> via]

ParseError == [ok |-> FALSE, plan |-> WorkflowPlan(None, None, <<>>), via |-> "error"]

\* parse_any_form without its last attempt, the bracket span of the
\* repaired text.
parse_any_form_no_repaired_span(text) ==
    IF try_all_known_forms(text).some
    THEN Parsed(try_all_known_forms(text).v, "text")
    ELSE Only({
        IF extracted.some /\ try_all_known_forms(extracted.v).some
        THEN Parsed(try_all_known_forms(extracted.v).v, "extracted")
        ELSE Only({
            IF repaired # text /\ try_all_known_forms(repaired).some
            THEN Parsed(try_all_known_forms(repaired).v, "repaired")
            ELSE ParseError
            : repaired \in {repair_unescaped_quotes(text)}})
        : extracted \in {extract_first_json_value(text)}})

\* fn parse_any_form
parse_any_form(text) ==
    IF try_all_known_forms(text).some
    THEN Parsed(try_all_known_forms(text).v, "text")
    ELSE Only({
        IF extracted.some /\ try_all_known_forms(extracted.v).some
        THEN Parsed(try_all_known_forms(extracted.v).v, "extracted")
        ELSE Only({
            IF repaired # text /\ try_all_known_forms(repaired).some
            THEN Parsed(try_all_known_forms(repaired).v, "repaired")
            ELSE Only({
                IF /\ repaired # text
                   /\ extracted_repaired.some
                   /\ try_all_known_forms(extracted_repaired.v).some
                THEN Parsed(try_all_known_forms(extracted_repaired.v).v,
                            "repaired_extracted")
                \* serde_json::from_str::<WorkflowPlan>(text), which failed above
                ELSE ParseError
                : extracted_repaired \in {extract_first_json_value(repaired)}})
            : repaired \in {repair_unescaped_quotes(text)}})
        : extracted \in {extract_first_json_value(text)}})

\* WorkflowPlan::from_str
from_str(value) ==
    Only({parse_any_form(cleaned) : cleaned \in {strip_markdown_fence(value)}})

(***************************************************************************)
(* serde_json::to_string and to_string_pretty of a WorkflowPlan: the       *)
(* document the Serialize impls serde derives give (plan.rs 3-22), then    *)
(* its text under the compact or the pretty formatter.                     *)
(***************************************************************************)
ser_String(s) == JString(s)

ser_u32(n) == JNumber(FALSE, [k \in DOMAIN NatDigits(n) |-> DigitChars[NatDigits(n)[k] + 1]], FALSE)

ser_Vec_String(v) == JArray([k \in DOMAIN v |-> ser_String(v[k])])

\* The members of a struct that are written: skip_serializing_if =
\* "Option::is_none" leaves a member out.
Members(all) ==
    LET kept == SelectSeq(all, LAMBDA m : m.written)
    IN  JObject([k \in DOMAIN kept |-> kept[k].key], [k \in DOMAIN kept |-> kept[k].value])

Member(key, value) == [key |-> key, value |-> value, written |-> TRUE]

SkippedIfNone(key, opt, ser(_)) ==
    [key |-> key, value |-> IF opt.some THEN ser(opt.v) ELSE JNull, written |-> opt.some]

\* Serialize for PlanStep that leaves timeout_secs out.
ser_PlanStep_no_timeout(t) ==
    Members(<<Member(<<"t","a","s","k","_","n","u","m","b","e","r">>, ser_u32(t.task_number)),
              Member(<<"c","o","m","m","a","n","d">>, ser_String(t.command)),
              Member(<<"a","r","g","s">>, ser_Vec_String(t.args)),
              SkippedIfNone(<<"i","n","p","u","t","_","f","r","o","m","_","t","a","s","k">>,
                            t.input_from_task, ser_u32)>>)

\* Serialize for PlanStep (plan.rs 12-22)
ser_PlanStep(t) ==
    Members(<<Member(<<"t","a","s","k","_","n","u","m","b","e","r">>, ser_u32(t.task_number)),
              Member(<<"c","o","m","m","a","n","d">>, ser_String(t.command)),
              Member(<<"a","r","g","s">>, ser_Vec_String(t.args)),
              Member(<<"t","i","m","e","o","u","t","_","s","e","c","s">>, ser_u32(t.timeout_secs)),
              SkippedIfNone(<<"i","n","p","u","t","_","f","r","o","m","_","t","a","s","k">>,
                            t.input_from_task, ser_u32)>>)

\* Serialize for WorkflowPlan (plan.rs 3-10)
ser_WorkflowPlan(p) ==
    Members(<<SkippedIfNone(<<"p","l","a","n","_","i","d">>, p.plan_id, ser_String),
              SkippedIfNone(<<"p","l","a","n","_","d","e","s","c","r","i","p","t","i","o","n">>,
                            p.plan_description, ser_String),
              Member(<<"t","a","s","k","s">>,
                     JArray([k \in DOMAIN p.tasks |-> ser_PlanStep(p.tasks[k])]))>>)

\* The escape serde_json writes for a character of a string; the
\* characters below U+0020 that have no short escape are not in the model.
escape(c) ==
    CASE c = "\"" -> <<"\\", "\"">>
      [] c = "\\" -> <<"\\", "\\">>
      [] c = "U+0008" -> <<"\\", "b">>
      [] c = "U+000C" -> <<"\\", "f">>
      [] c = "\n" -> <<"\\", "n">>
      [] c = "\r" -> <<"\\", "r">>
      [] c = "\t" -> <<"\\", "t">>
      [] OTHER -> <<c>>

RECURSIVE Flatten(_)
Flatten(ss) == IF ss = <<>> THEN <<>> ELSE Head(ss) \o Flatten(Tail(ss))

write_string(s) == <<"\"">> \o Flatten([k \in DOMAIN s |-> escape(s[k])]) \o <<"\"">>

\* PrettyFormatter's indent of two spaces a level, after a line feed.
NewLine(level) == <<"\n">> \o [k \in 1..(2 * level) |-> " "]

\* The text of a document on nesting level level: CompactFormatter, or
\* PrettyFormatter when pretty.
RECURSIVE write_value(_, _, _)
write_value(j, level, pretty) ==
    LET first == IF pretty THEN NewLine(level + 1) ELSE <<>>
        comma == IF pretty THEN <<",">> \o NewLine(level + 1) ELSE <<",">>
        colon == IF pretty THEN <<":", " ">> ELSE <<":">>
        last == IF pretty THEN NewLine(level) ELSE <<>>
        sep(k) == IF k = 1 THEN first ELSE comma
    IN  CASE j.t = "null" -> <<"n", "u", "l", "l">>
          [] j.t = "bool" -> IF j.b THEN <<"t", "r", "u", "e">> ELSE <<"f", "a", "l", "s", "e">>
          [] j.t = "string" -> write_string(j.s)
          [] j.t = "number" -> (IF j.num.neg THEN <<"-">> ELSE <<>>) \o j.num.digits
          [] j.t = "array" ->
                IF j.items = <<>> THEN <<"[", "]">>
                ELSE <<"[">>
                     \o Flatten([k \in DOMAIN j.items |->
                                   sep(k) \o write_value(j.items[k], level + 1, pretty)])
                     \o last \o <<"]">>
          [] j.t = "object" ->
                IF j.keys = <<>> THEN <<"{", "}">>
                ELSE <<"{">>
                     \o Flatten([k \in DOMAIN j.keys |->
                                   sep(k) \o write_string(j.keys[k]) \o colon
                                   \o write_value(j.items[k], level + 1, pretty)])
                     \o last \o <<"}">>

\* serde_json::to_string(&plan) (planner/wrapper.rs 199)
plan_to_string(p) == write_value(ser_WorkflowPlan(p), 0, FALSE)

\* serde_json::to_string_pretty(plan) (plan_buffer.rs 78)
plan_to_string_pretty(p) == write_value(ser_WorkflowPlan(p), 0, TRUE)

\* PlanStorage::load on a file that holds contents (plan_buffer.rs 42-55)
load(contents) ==
    IF trim(contents) = <<>> THEN Parsed(WorkflowPlan(None, None, <<>>), "default")
    ELSE Only({IF r.ok /\ as_WorkflowPlan(r.v).ok
               THEN Parsed(as_WorkflowPlan(r.v).v, "load")
               ELSE ParseError
               : r \in {parse_json(contents)}})

(***************************************************************************)
(* The texts the functions of plan.rs are applied to: a body of up to      *)
(* MaxBody characters between the brackets of an array or the braces of an *)
(* object or after an opening quote, and the two texts of the tests of     *)
(* plan.rs.                                                                *)
(***************************************************************************)
\* tests::leaves_valid_json_unchanged (plan.rs 392)
ValidExample ==
    <<"{", "\"", "p", "l", "a", "n", "\"", ":", "[", "{", "\"", "c",
      "m", "d", "\"", ":", "\"", "c", "a", "t", "\"", ",", "\"", "a",
      "r", "g", "s", "\"", ":", "[", "\"", "f", "i", "l", "e", ".",
      "t", "x", "t", "\"", "]", "}", "]", "}">>

\* tests::repairs_unescaped_quotes_in_args (plan.rs 377), on one line
BrokenExample ==
    <<"{", "\"", "p", "l", "a", "n", "\"", ":", "[", "{", "\"", "c",
      "m", "d", "\"", ":", "\"", "a", "w", "k", "\"", ",", "\"", "a",
      "r", "g", "s", "\"", ":", "[", "\"", "-", "F", "\"", "/", "\"",
      "/", ",", "N", "R", "=", "=", "1", ";", "p", "r", "i", "n", "t",
      " ", "l", "e", "n", "g", "t", "h", "(", "$", "N", "F", ")", "\"",
      "]", "}", "]", "}">>

\* The argument the test expects (plan.rs 386).
RepairedArg ==
    <<"-", "F", "\"", "/", "\"", ",", "N", "R", "=", "=", "1", ";",
      "p", "r", "i", "n", "t", " ", "l", "e", "n", "g", "t", "h", "(",
      "$", "N", "F", ")">>

BodyChars == {"\"", "\\", "/", ",", " ", ":"}

Bodies == SeqsUpTo(BodyChars, MaxBody)

PlanTexts ==
    {<<"[">> \o b \o <<"]">> : b \in Bodies}
    \cup {<<"{">> \o b \o <<"}">> : b \in Bodies}
    \cup {<<"\"">> \o b : b \in Bodies}
    \cup {ValidExample, BrokenExample}

NotParsed == [ok |-> FALSE, plan |-> WorkflowPlan(None, None, <<>>), via |-> "(none)"]

TextIdle ==
    /\ rtext = <<>>
    /\ rpc = "start"
    /\ rst = RepairStart
    /\ rprev = RepairStart
    /\ parsed = NotParsed

InitText ==
    /\ rtext \in PlanTexts
    /\ rpc = "start"
    /\ rst = RepairStart
    /\ rprev = RepairStart
    /\ parsed = NotParsed

\* while let Some(ch) = chars.next() { .. }: one iteration.
RepairIteration ==
    /\ rpc \in {"start", "repairing"}
    /\ rst.pos <= Len(rtext)
    /\ rprev' = rst
    /\ rst' = repair_iteration(rtext, rst)
    /\ rpc' = "repairing"
    /\ UNCHANGED <<rtext, parsed>>
    /\ UNCHANGED <<wireVars, envVars, execVars, planVars, respVars, pipeVars, cliVars, addVars, replVars>>

\* The loop has ended and repair_unescaped_quotes returns output.
RepairReturn ==
    /\ rpc \in {"start", "repairing"}
    /\ rst.pos > Len(rtext)
    /\ rpc' = "repaired"
    /\ UNCHANGED <<rtext, rst, rprev, parsed>>
    /\ UNCHANGED <<wireVars, envVars, execVars, planVars, respVars, pipeVars, cliVars, addVars, replVars>>

\* WorkflowPlan::from_str(text)
FromStr ==
    /\ rpc = "start"
    /\ parsed' = from_str(rtext)
    /\ rpc' = "parsed"
    /\ UNCHANGED <<rtext, rst, rprev>>
    /\ UNCHANGED <<wireVars, envVars, execVars, planVars, respVars, pipeVars, cliVars, addVars, replVars>>

(***************************************************************************)
(* Plans written as JSON and read back: Planner::plan with                 *)
(* PlannerOutput::parse (planner/wrapper.rs 83-88, 192-201) and            *)
(* PlanStorage::save with PlanStorage::load (plan_buffer.rs 42-87).        *)
(***************************************************************************)
MaxCodecSteps == 2

\* The step of tests::save_and_load_roundtrip (plan_buffer.rs 171-177), a
\* step whose texts hold what a JSON string escapes, and a step with a link.
CodecSteps ==
    {PlanStep(1, SortCommand, <<<<"-", "r">>>>, 300, None),
     PlanStep(0, <<"a", "\"", "\\", "\n">>, <<<<"U+0008", "U+00E9", "/">>, <<>>>>, 0, Some(0)),
     PlanStep(7, UniqCommand, <<>>, 5, Some(1))}

CodecPlans ==
    {WorkflowPlan(id, None, tasks) :
        id \in {None, Some(<<"p", "\t", " ">>)}, tasks \in SeqsUpTo(CodecSteps, MaxCodecSteps)}

InitCodec ==
    /\ wplan \in CodecPlans
    /\ ppc = "start"
    /\ nplan = None
    /\ nplan2 = None
    /\ fargs = NoArgs
    /\ jenv = None

\* serde_json::to_string(&plan) (planner/wrapper.rs 199)
PlanToString ==
    /\ rpc = "start"
    /\ rtext' = plan_to_string(wplan)
    /\ rpc' = "raw_json"
    /\ UNCHANGED <<rst, rprev, parsed>>
    /\ UNCHANGED <<wireVars, envVars, execVars, planVars, respVars, pipeVars, cliVars, addVars, replVars>>

\* PlannerOutput::parse: WorkflowPlan::from_str(&self.raw_json)
ParseRawJson ==
    /\ rpc = "raw_json"
    /\ parsed' = from_str(rtext)
    /\ rpc' = "parsed_raw_json"
    /\ UNCHANGED <<rtext, rst, rprev>>
    /\ UNCHANGED <<wireVars, envVars, execVars, planVars, respVars, pipeVars, cliVars, addVars, replVars>>

\* PlanStorage::save(plan), the file taking the text
Save ==
    /\ rpc = "start"
    /\ rtext' = plan_to_string_pretty(wplan)
    /\ rpc' = "saved"
    /\ UNCHANGED <<rst, rprev, parsed>>
    /\ UNCHANGED <<wireVars, envVars, execVars, planVars, respVars, pipeVars, cliVars, addVars, replVars>>

\* PlanStorage::load() of the file saved
Load ==
    /\ rpc = "saved"
    /\ parsed' = load(rtext)
    /\ rpc' = "loaded"
    /\ UNCHANGED <<rtext, rst, rprev>>
    /\ UNCHANGED <<wireVars, envVars, execVars, planVars, respVars, pipeVars, cliVars, addVars, replVars>>

(***************************************************************************)
(* The texts WorkflowPlan::from_str is applied to: a document, or a text   *)
(* with unescaped quotes, with prose before and after it or inside a       *)
(* fenced block.                                                           *)
(***************************************************************************)
\* {"tasks":[{"task_number":5,"command":"sort"},{"task_number":7,"command":"uniq","input_from_task":5}]}
CanonicalDoc ==
    <<"{", "\"", "t", "a", "s", "k", "s", "\"", ":", "[", "{", "\"", "t",
      "a", "s", "k", "_", "n", "u", "m", "b", "e", "r", "\"", ":", "5", ",",
      "\"", "c", "o", "m", "m", "a", "n", "d", "\"", ":", "\"", "s", "o",
      "r", "t", "\"", "}", ",", "{", "\"", "t", "a", "s", "k", "_", "n", "u",
      "m", "b", "e", "r", "\"", ":", "7", ",", "\"", "c", "o", "m", "m", "a",
      "n", "d", "\"", ":", "\"", "u", "n", "i", "q", "\"", ",", "\"", "i",
      "n", "p", "u", "t", "_", "f", "r", "o", "m", "_", "t", "a", "s", "k",
      "\"", ":", "5", "}", "]", "}">>

\* {"plan_id":"p","tasks":[{"task_number":0,"command":"cat","args":["f"],"timeout_secs":9}]}
CanonicalZeroDoc ==
    <<"{", "\"", "p", "l", "a", "n", "_", "i", "d", "\"", ":", "\"", "p",
      "\"", ",", "\"", "t", "a", "s", "k", "s", "\"", ":", "[", "{", "\"",
      "t", "a", "s", "k", "_", "n", "u", "m", "b", "e", "r", "\"", ":", "0",
      ",", "\"", "c", "o", "m", "m", "a", "n", "d", "\"", ":", "\"", "c",
      "a", "t", "\"", ",", "\"", "a", "r", "g", "s", "\"", ":", "[", "\"",
      "f", "\"", "]", ",", "\"", "t", "i", "m", "e", "o", "u", "t", "_", "s",
      "e", "c", "s", "\"", ":", "9", "}", "]", "}">>

\* {"plan":[{"cmd":"sort"},{"cmd":"uniq","input_from_step":1,"timeout_secs":60}]}
LegacyDoc ==
    <<"{", "\"", "p", "l", "a", "n", "\"", ":", "[", "{", "\"", "c", "m",
      "d", "\"", ":", "\"", "s", "o", "r", "t", "\"", "}", ",", "{", "\"",
      "c", "m", "d", "\"", ":", "\"", "u", "n", "i", "q", "\"", ",", "\"",
      "i", "n", "p", "u", "t", "_", "f", "r", "o", "m", "_", "s", "t", "e",
      "p", "\"", ":", "1", ",", "\"", "t", "i", "m", "e", "o", "u", "t", "_",
      "s", "e", "c", "s", "\"", ":", "6", "0", "}", "]", "}">>

\* {"plan":["sort","uniq"]}
SimpleDoc ==
    <<"{", "\"", "p", "l", "a", "n", "\"", ":", "[", "\"", "s", "o", "r",
      "t", "\"", ",", "\"", "u", "n", "i", "q", "\"", "]", "}">>

\* [{"task_number":4,"command":"new","cmd":"old"}]
BareCanonicalDoc ==
    <<"[", "{", "\"", "t", "a", "s", "k", "_", "n", "u", "m", "b", "e", "r",
      "\"", ":", "4", ",", "\"", "c", "o", "m", "m", "a", "n", "d", "\"",
      ":", "\"", "n", "e", "w", "\"", ",", "\"", "c", "m", "d", "\"", ":",
      "\"", "o", "l", "d", "\"", "}", "]">>

\* [{"cmd":"cat","args":["-n"],"input_from_step":9}]
BareLegacyDoc ==
    <<"[", "{", "\"", "c", "m", "d", "\"", ":", "\"", "c", "a", "t", "\"",
      ",", "\"", "a", "r", "g", "s", "\"", ":", "[", "\"", "-", "n", "\"",
      "]", ",", "\"", "i", "n", "p", "u", "t", "_", "f", "r", "o", "m", "_",
      "s", "t", "e", "p", "\"", ":", "9", "}", "]">>

\* ["uniq"]
BareStringsDoc ==
    <<"[", "\"", "u", "n", "i", "q", "\"", "]">>

\* {"tasks":[],"plan":["a"]}
BothFieldsDoc ==
    <<"{", "\"", "t", "a", "s", "k", "s", "\"", ":", "[", "]", ",", "\"",
      "p", "l", "a", "n", "\"", ":", "[", "\"", "a", "\"", "]", "}">>

\* {"plan":[]}
EmptyPlanDoc ==
    <<"{", "\"", "p", "l", "a", "n", "\"", ":", "[", "]", "}">>

\* []
EmptyArrayDoc ==
    <<"[", "]">>

\* ["a]","b"]
BracketInStringDoc ==
    <<"[", "\"", "a", "]", "\"", ",", "\"", "b", "\"", "]">>

\* {"steps":["a"]}
UnknownDoc ==
    <<"{", "\"", "s", "t", "e", "p", "s", "\"", ":", "[", "\"", "a", "\"",
      "]", "}">>

\* ["a"b"]
BrokenArrayDoc ==
    <<"[", "\"", "a", "\"", "b", "\"", "]">>

\* ["a"b
TruncatedDoc ==
    <<"[", "\"", "a", "\"", "b">>

\* Prose without a bracket: 'Plan: '
PlanProse ==
    <<"P", "l", "a", "n", ":", " ">>

\* Prose with brackets: 'see [1]: '
BracketProse ==
    <<"s", "e", "e", " ", "[", "1", "]", ":", " ">>

\* Whitespace: a space and a line feed
BlankProse ==
    <<" ", "\n">>

\* ' done.'
DoneProse ==
    <<" ", "d", "o", "n", "e", ".">>

\* ' [x'
TailBracketProse ==
    <<" ", "[", "x">>

\* The opening line of a fenced block, with its line feed
FenceOpen ==
    <<"U+0060", "U+0060", "U+0060", "j", "s", "o", "n", "\n">>

\* The closing line of a fenced block, after a line feed
FenceClose ==
    <<"\n", "U+0060", "U+0060", "U+0060">>

\* tests::repairs_unescaped_quotes_in_args (plan.rs 374-379), with its lines
MultiLineBroken ==
    <<"{", "\n", " ", " ", " ", " ", " ", " ", " ", " ", " ", " ", " ", " ",
      "\"", "p", "l", "a", "n", "\"", ":", " ", "[", "\n", " ", " ", " ",
      " ", " ", " ", " ", " ", " ", " ", " ", " ", " ", " ", " ", " ", "{",
      "\"", "c", "m", "d", "\"", ":", " ", "\"", "s", "o", "r", "t", "\"",
      "}", ",", "\n", " ", " ", " ", " ", " ", " ", " ", " ", " ", " ", " ",
      " ", " ", " ", " ", " ", "{", "\"", "c", "m", "d", "\"", ":", " ",
      "\"", "a", "w", "k", "\"", ",", " ", "\"", "a", "r", "g", "s", "\"",
      ":", " ", "[", "\"", "-", "F", "\"", "/", "\"", "/", ",", "N", "R",
      "=", "=", "1", ";", "p", "r", "i", "n", "t", " ", "l", "e", "n", "g",
      "t", "h", "(", "$", "N", "F", ")", "\"", "]", "}", "\n", " ", " ", " ",
      " ", " ", " ", " ", " ", " ", " ", " ", " ", "]", "\n", " ", " ", " ",
      " ", " ", " ", " ", " ", "}">>

\* Documents one or more of the six forms accept, and two none accepts.
Documents ==
    {CanonicalDoc, CanonicalZeroDoc, LegacyDoc, SimpleDoc, BareCanonicalDoc,
     BareLegacyDoc, BareStringsDoc, BothFieldsDoc, EmptyPlanDoc, EmptyArrayDoc,
     BracketInStringDoc, UnknownDoc}

\* Texts that are no JSON for their quotes.
BrokenDocs == {BrokenExample, BrokenArrayDoc, TruncatedDoc}

LeadingProses == {<<>>, PlanProse, BracketProse, BlankProse}

TrailingProses == {<<>>, DoneProse, TailBracketProse}

ParseTexts ==
    {pre \o d \o post :
        pre \in LeadingProses, d \in Documents \cup BrokenDocs, post \in TrailingProses}
    \cup {FenceOpen \o pre \o d \o FenceClose :
             pre \in {<<>>, PlanProse}, d \in Documents \cup BrokenDocs}
    \cup {FenceOpen \o d : d \in Documents}
    \cup {Fence \o d \o Fence : d \in {SimpleDoc}}
    \cup {MultiLineBroken}

InitParse ==
    /\ rtext \in ParseTexts
    /\ rpc = "start"
    /\ rst = RepairStart
    /\ rprev = RepairStart
    /\ parsed = NotParsed

\* try_all_known_forms(text) on its own
TryAllKnownForms ==
    /\ rpc = "start"
    /\ parsed' = (IF try_all_known_forms(rtext).some
                  THEN Parsed(try_all_known_forms(rtext).v, "forms")
                  ELSE ParseError)
    /\ rpc' = "tried"
    /\ UNCHANGED <<rtext, rst, rprev>>
    /\ UNCHANGED <<wireVars, envVars, execVars, planVars, respVars, pipeVars, cliVars, addVars, replVars>>

\* plan.normalize_for_execution() on the plan from_str gave
NormalizeParsed ==
    /\ rpc = "parsed"
    /\ parsed.ok
    /\ nplan' = Some(normalize_for_execution(parsed.plan))
    /\ rpc' = "normalized"
    /\ UNCHANGED <<wplan, ppc, nplan2, fargs, jenv>>
    /\ UNCHANGED <<rtext, rst, rprev, parsed>>
    /\ UNCHANGED <<wireVars, envVars, execVars, respVars, pipeVars, cliVars, addVars, replVars>>

(***************************************************************************)
(* The bytes of the wire (agq_client.rs 297-361).  A stream is the         *)
(* sequence of the bytes the server sends; a byte below 0x80 is written as *)
(* its character, and 0xC3 0xA9 are the two bytes of U+00E9.  Each of the  *)
(* two is no UTF-8 without the other.                                      *)
(***************************************************************************)
MaxPayload == 2
MaxItemLen == 2
MaxReads == 2

CRLF == <<"\r", "\n">>

\* str::as_bytes
as_bytes(s) ==
    Flatten([k \in DOMAIN s |-> CASE s[k] = "U+00E9" -> <<"0xC3", "0xA9">>
          [] s[k] = "U+FFFD" -> <<"0xEF", "0xBF", "0xBD">>
          [] OTHER -> <<s[k]>>])

\* std::str::from_utf8(bytes).is_ok()
is_utf8(bytes) ==
    \A k \in DOMAIN bytes :
        /\ bytes[k] = "0xC3" => (k < Len(bytes) /\ bytes[k + 1] = "0xA9")
        /\ bytes[k] = "0xA9" => (k > 1 /\ bytes[k - 1] = "0xC3")

\* String::from_utf8_lossy that takes every byte for a character.
from_utf8_lossy_bytewise(bytes) == bytes

\* String::from_utf8_lossy: U+FFFD for every byte that is part of no
\* character.
from_utf8_lossy(bytes) ==
    Flatten([k \in DOMAIN bytes |->
        CASE bytes[k] = "0xC3" ->
                IF k < Len(bytes) /\ bytes[k + 1] = "0xA9"
                THEN <<"U+00E9">> ELSE <<"U+FFFD">>
          [] bytes[k] = "0xA9" ->
                IF k > 1 /\ bytes[k - 1] = "0xC3" THEN <<>> ELSE <<"U+FFFD">>
          [] OTHER -> <<bytes[k]>>])

\* BufRead::read_line: the bytes up to and with the next line feed, or up
\* to the end of the stream; an error when they are no UTF-8.
read_line(stream, pos) ==
    LET feeds == {k \in pos..Len(stream) : stream[k] = "\n"}
        end == IF feeds = {} THEN Len(stream)
               ELSE CHOOSE k \in feeds : \A m \in feeds : k <= m
        bytes == SubSeq(stream, pos, end)
    IN  [ok |-> is_utf8(bytes), line |-> from_utf8_lossy(bytes), next |-> end + 1]

\* str::trim_end_matches("\r\n")
RECURSIVE trim_end_matches_crlf(_)
trim_end_matches_crlf(s) ==
    IF Len(s) >= 2 /\ SubSeq(s, Len(s) - 1, Len(s)) = CRLF
    THEN trim_end_matches_crlf(SubSeq(s, 1, Len(s) - 2))
    ELSE s

\* str::parse::<i64>: an optional sign and one digit or more.  Numbers of
\* ten digits and more are not among the streams of the model.
parse_i64(s) ==
    LET signed == s # <<>> /\ s[1] \in {"+", "-"}
        digits == IF signed THEN Tail(s) ELSE s
    IN  IF digits # <<>> /\ Len(digits) <= 9 /\ \A k \in DOMAIN digits : digits[k] \in DigitSet
        THEN [ok |-> TRUE,
              v |-> IF signed /\ s[1] = "-" THEN 0 - digits_value(digits)
                    ELSE digits_value(digits)]
        ELSE [ok |-> FALSE, v |-> 0]

\* What read_resp_value does: it returns Ok(value) or Err(message) with the
\* reader at next, or it panics.
ROk(value, next) == [kind |-> "ok", value |-> value, prefix |-> "", next |-> next]

RErr(prefix, next) == [kind |-> "err", value |-> Null, prefix |-> prefix, next |-> next]

RPanic(message) == [kind |-> "panic", value |-> Null, prefix |-> message, next |-> 0]

\* The bulk arm that reads the body as a line, to the next line feed.
read_bulk_scanning(stream, pos, len) ==
    Only({IF ~body.ok \/ body.line = <<>> THEN RErr("failed to read bulk body: ", body.next)
          ELSE ROk(BulkString(trim_end_matches_crlf(body.line)), body.next)
          : body \in {read_line(stream, pos)}})

\* The '$' arm of read_resp_value for a length that is not negative, the
\* reader at pos after the header line: read_exact of len + 2 bytes, of
\* which the first len are the body.
read_bulk(stream, pos, len) ==
    IF pos + len + 1 > Len(stream)
    THEN RErr("failed to read bulk body: ", Len(stream) + 1)
    ELSE ROk(BulkString(from_utf8_lossy(SubSeq(stream, pos, pos + len - 1))),
             pos + len + 2)

\* fn read_resp_value, the reader at pos; read_items is its loop over the
\* elements of an array.
RECURSIVE read_resp_value(_, _)
RECURSIVE read_items(_, _, _, _)
read_resp_value(stream, pos) ==
    Only({
        \* read_line(..).map_err(..)?
        IF ~l.ok THEN RErr("failed to read RESP: ", l.next)
        ELSE IF l.line = <<>> THEN RErr("empty response from AGQ", l.next)
        \* &line[1..] when the first character is longer than a byte
        ELSE IF len_utf8(l.line[1]) # 1
        THEN RPanic("byte index 1 is not a char boundary")
        ELSE Only({
            CASE l.line[1] = "+" -> ROk(SimpleString(rest), l.next)
              [] l.line[1] = "-" -> ROk(Error(rest), l.next)
              [] l.line[1] = ":" ->
                    IF parse_i64(rest).ok THEN ROk(Integer(parse_i64(rest).v), l.next)
                    ELSE RErr("invalid RESP integer: ", l.next)
              [] l.line[1] = "$" ->
                    IF ~parse_i64(rest).ok THEN RErr("invalid RESP bulk length: ", l.next)
                    ELSE IF parse_i64(rest).v < 0 THEN ROk(Null, l.next)
                    ELSE read_bulk(stream, l.next, parse_i64(rest).v)
              [] l.line[1] = "*" ->
                    IF ~parse_i64(rest).ok THEN RErr("invalid RESP array length: ", l.next)
                    ELSE IF parse_i64(rest).v < 0 THEN ROk(Null, l.next)
                    ELSE read_items(stream, l.next, parse_i64(rest).v, <<>>)
              [] OTHER -> RErr("unsupported RESP prefix: ", l.next)
            : rest \in {trim_end_matches_crlf(Tail(l.line))}})
        : l \in {read_line(stream, pos)}})

read_items(stream, pos, count, items) ==
    IF count = 0 THEN ROk(Array(items), pos)
    ELSE Only({IF r.kind # "ok" THEN r
               ELSE read_items(stream, r.next, count - 1, Append(items, r.value))
               : r \in {read_resp_value(stream, pos)}})

\* The decimal digits of a length or a count.
count_digits(n) == [k \in DOMAIN NatDigits(n) |-> DigitChars[NatDigits(n)[k] + 1]]

\* resp_array that writes the number of characters of an item for its
\* length.
resp_array_char_count(items) ==
    <<"*">> \o count_digits(Len(items)) \o CRLF
    \o Flatten([k \in DOMAIN items |->
                  <<"$">> \o count_digits(Len(items[k])) \o CRLF
                  \o as_bytes(items[k]) \o CRLF])

\* fn resp_array
resp_array(items) ==
    <<"*">> \o count_digits(Len(items)) \o CRLF
    \o Flatten([k \in DOMAIN items |->
                  <<"$">> \o count_digits(Len(as_bytes(items[k]))) \o CRLF
                  \o as_bytes(items[k]) \o CRLF])


\* The bytes of a payload.
PayloadBytes == {"a", "\r", "\n", "$", "0xC3", "0xA9"}

Payloads == SeqsUpTo(PayloadBytes, MaxPayload)

\* A bulk string as a server writes it: the declared length, the payload
\* and a line end.
bulk(declared, payload) == <<"$">> \o count_digits(declared) \o CRLF \o payload \o CRLF

\* 0xC3 0xA9 CR LF: a line whose first character is two bytes long.
TwoByteFirst == <<"0xC3", "0xA9", "\r", "\n">>

\* 0xA9 CR LF: a line that is no UTF-8.
NotUtf8Line == <<"0xA9", "\r", "\n">>

\* +OK\r\n
SimpleOk ==
    <<"+", "O", "K", "\r", "\n">>

\* -ERR x\r\n
ErrorReply ==
    <<"-", "E", "R", "R", " ", "x", "\r", "\n">>

\* :-12\r\n
NegativeInteger ==
    <<":", "-", "1", "2", "\r", "\n">>

\* :+7\r\n
SignedInteger ==
    <<":", "+", "7", "\r", "\n">>

\* $-1\r\n
NullBulk ==
    <<"$", "-", "1", "\r", "\n">>

\* *-1\r\n
NullArray ==
    <<"*", "-", "1", "\r", "\n">>

\* *0\r\n
EmptyArray ==
    <<"*", "0", "\r", "\n">>

\* *1\r\n*2\r\n+a\r\n:7\r\n
NestedArray ==
    <<"*", "1", "\r", "\n", "*", "2", "\r", "\n", "+", "a", "\r", "\n", ":",
      "7", "\r", "\n">>

\* ?x\r\n
UnknownTag ==
    <<"?", "x", "\r", "\n">>

\* :x\r\n
NoDigitsInteger ==
    <<":", "x", "\r", "\n">>

\* $x\r\n
NoDigitsBulk ==
    <<"$", "x", "\r", "\n">>

\* *x\r\n
NoDigitsArray ==
    <<"*", "x", "\r", "\n">>

\* +OK and the end of the stream
NoLineEnd ==
    <<"+", "O", "K">>

\* :12\n
LineFeedOnly ==
    <<":", "1", "2", "\n">>

\* \r\n
BareLineEnd ==
    <<"\r", "\n">>

\* $2\r\nabXY+OK\r\n
OtherTrailer ==
    <<"$", "2", "\r", "\n", "a", "b", "X", "Y", "+", "O", "K", "\r", "\n">>

\* *2\r\n+a\r\n
ShortArray ==
    <<"*", "2", "\r", "\n", "+", "a", "\r", "\n">>

\* *2\r\n+a\r\n?\r\n
BadElement ==
    <<"*", "2", "\r", "\n", "+", "a", "\r", "\n", "?", "\r", "\n">>


WellFormedStreams ==
    {SimpleOk, ErrorReply, NegativeInteger, SignedInteger, NullBulk, NullArray,
     EmptyArray, NestedArray, NullBulk \o SimpleOk, OtherTrailer}

MalformedStreams ==
    {<<>>, UnknownTag, TwoByteFirst, NotUtf8Line, NoDigitsInteger, NoDigitsBulk,
     NoDigitsArray, NoLineEnd, LineFeedOnly, BareLineEnd, ShortArray, BadElement,
     <<"*", "1">> \o CRLF \o TwoByteFirst}

BulkStreams ==
    UNION {{bulk(Len(p), p), bulk(Len(p), p) \o SimpleOk,
            \* a length the stream is too short for
            bulk(Len(p) + 1, p),
            <<"*", "2">> \o CRLF \o bulk(Len(p), p) \o SignedInteger,
            <<"*", "2">> \o CRLF \o bulk(Len(p), p) \o UnknownTag} : p \in Payloads}

ServerStreams == WellFormedStreams \cup MalformedStreams \cup BulkStreams

\* The characters of an argument of a command.
ItemChars == {"a", "\r", "\n", "U+00E9"}

ItemLists == SeqsUpTo(SeqsUpTo(ItemChars, MaxItemLen), 2)

InitResp ==
    /\ rbytes \in ServerStreams
    /\ spos = 1
    /\ reads = <<>>
    /\ sitems = None
    /\ spc = "start"

RespIdle ==
    /\ rbytes = <<>>
    /\ spos = 1
    /\ reads = <<>>
    /\ sitems = None
    /\ spc = "start"

\* resp_array(items): the bytes of a request, which the reader is then over.
RespArray ==
    /\ spc = "start"
    /\ rbytes = <<>>
    /\ \E items \in ItemLists :
        /\ rbytes' = resp_array(items)
        /\ sitems' = Some(items)
    /\ spc' = "encoded"
    /\ UNCHANGED <<spos, reads>>
    /\ UNCHANGED <<wireVars, envVars, execVars, planVars, textVars, pipeVars, cliVars, addVars, replVars>>

\* read_resp_value(reader): one call, which leaves the reader after what it
\* consumed.  No call follows one that failed: the connection is dropped.
ReadRespValue ==
    /\ spc \in {"start", "encoded", "read"}
    /\ Len(reads) < MaxReads
    /\ \E r \in {read_resp_value(rbytes, spos)} :
        /\ reads' = Append(reads, [at |-> spos, r |-> r])
        /\ spos' = IF r.kind = "panic" THEN spos ELSE r.next
        /\ spc' = CASE r.kind = "panic" -> "panicked"
                    [] r.kind = "err" -> "failed"
                    [] OTHER -> "read"
    /\ UNCHANGED <<rbytes, sitems>>
    /\ UNCHANGED <<wireVars, envVars, execVars, planVars, textVars, pipeVars, cliVars, addVars, replVars>>

(***************************************************************************)
(* One stage of Executor::execute over pipes of bounded size (executor.rs  *)
(* 37-51): write_all of the data to the child's stdin, then                *)
(* wait_with_output, which closes the stdin, reads the stdout to its end   *)
(* and waits.  Bytes are counted, one moves at a time.  The child is a     *)
(* tool that writes a byte for each one it reads ("streaming", as tr), one *)
(* that reads to the end before it writes ("buffering", as sort), or one   *)
(* that exits without reading ("early", as a tool that rejects its args).  *)
(***************************************************************************)
PipeCap == 2

\* The sizes of the data: up to more than the two pipes and the child hold.
DataSizes == 0..(2 * PipeCap + 2)

ToolKinds == {"streaming", "buffering", "early"}

\* wait_with_output that leaves the child's stdin open.
closes_stdin_never(call_) == FALSE

\* Which call of execute drops the child's stdin: Child::wait_with_output
\* does, before it reads.
closes_stdin(call_) == call_ = "wait_with_output"

PipeIdle ==
    /\ pipe_data = 0
    /\ tool_kind = "early"
    /\ wpc = "idle"
    /\ unwritten = 0
    /\ stdin_pipe = 0
    /\ stdin_closed = FALSE
    /\ held = 0
    /\ stdout_pipe = 0
    /\ cpc = "exited"
    /\ drained = 0

\* The child has been spawned with both pipes empty.
InitPipe ==
    /\ pipe_data \in DataSizes
    /\ tool_kind \in ToolKinds
    /\ wpc = "write_all"
    /\ unwritten = pipe_data
    /\ stdin_pipe = 0
    /\ stdin_closed = FALSE
    /\ held = 0
    /\ stdout_pipe = 0
    /\ cpc = "run"
    /\ drained = 0

\* lines 43-47, stdin.write_all(&data): a byte goes into the pipe when
\* there is room; the write fails when the child has gone.
WriteAll ==
    /\ wpc = "write_all"
    /\ unwritten > 0
    /\ IF cpc = "exited"
       THEN /\ wpc' = "err"
            /\ UNCHANGED <<unwritten, stdin_pipe>>
       ELSE /\ stdin_pipe < PipeCap
            /\ unwritten' = unwritten - 1
            /\ stdin_pipe' = stdin_pipe + 1
            /\ UNCHANGED wpc
    /\ UNCHANGED <<pipe_data, tool_kind, stdin_closed, held, stdout_pipe, cpc, drained>>
    /\ UNCHANGED <<wireVars, envVars, execVars, planVars, textVars, respVars, cliVars, addVars, replVars>>

\* lines 49-51, the call of wait_with_output once write_all has returned.
WaitWithOutput ==
    /\ wpc = "write_all"
    /\ unwritten = 0
    /\ wpc' = "wait_with_output"
    /\ stdin_closed' = closes_stdin("wait_with_output")
    /\ UNCHANGED <<pipe_data, tool_kind, unwritten, stdin_pipe, held, stdout_pipe, cpc, drained>>
    /\ UNCHANGED <<wireVars, envVars, execVars, planVars, textVars, respVars, cliVars, addVars, replVars>>

\* wait_with_output reads the child's stdout.
Drain ==
    /\ wpc = "wait_with_output"
    /\ stdout_pipe > 0
    /\ stdout_pipe' = stdout_pipe - 1
    /\ drained' = drained + 1
    /\ UNCHANGED <<pipe_data, tool_kind, wpc, unwritten, stdin_pipe, stdin_closed, held, cpc>>
    /\ UNCHANGED <<wireVars, envVars, execVars, planVars, textVars, respVars, cliVars, addVars, replVars>>

\* wait_with_output returns: the stdout is at its end and the child exited.
WaitReturns ==
    /\ wpc = "wait_with_output"
    /\ stdout_pipe = 0
    /\ cpc = "exited"
    /\ wpc' = "ok"
    /\ UNCHANGED <<pipe_data, tool_kind, unwritten, stdin_pipe, stdin_closed, held,
                   stdout_pipe, cpc, drained>>
    /\ UNCHANGED <<wireVars, envVars, execVars, planVars, textVars, respVars, cliVars, addVars, replVars>>

\* The child reads a byte; a streaming child reads the next one only after
\* it wrote the last.
ChildRead ==
    /\ cpc = "run"
    /\ tool_kind # "early"
    /\ stdin_pipe > 0
    /\ tool_kind = "streaming" => held = 0
    /\ stdin_pipe' = stdin_pipe - 1
    /\ held' = held + 1
    /\ UNCHANGED <<pipe_data, tool_kind, wpc, unwritten, stdin_closed, stdout_pipe, cpc, drained>>
    /\ UNCHANGED <<wireVars, envVars, execVars, planVars, textVars, respVars, cliVars, addVars, replVars>>

\* The child writes a byte to its stdout when there is room.
ChildWrite ==
    /\ \/ cpc = "run" /\ tool_kind = "streaming"
       \/ cpc = "flush"
    /\ held > 0
    /\ stdout_pipe < PipeCap
    /\ held' = held - 1
    /\ stdout_pipe' = stdout_pipe + 1
    /\ UNCHANGED <<pipe_data, tool_kind, wpc, unwritten, stdin_pipe, stdin_closed, cpc, drained>>
    /\ UNCHANGED <<wireVars, envVars, execVars, planVars, textVars, respVars, cliVars, addVars, replVars>>

\* The child reads the end of its stdin: a buffering child begins to write,
\* a streaming one has nothing left and exits.
ChildEof ==
    /\ cpc = "run"
    /\ tool_kind # "early"
    /\ stdin_closed
    /\ stdin_pipe = 0
    /\ tool_kind = "streaming" => held = 0
    /\ cpc' = IF held > 0 THEN "flush" ELSE "exited"
    /\ UNCHANGED <<pipe_data, tool_kind, wpc, unwritten, stdin_pipe, stdin_closed, held,
                   stdout_pipe, drained>>
    /\ UNCHANGED <<wireVars, envVars, execVars, planVars, textVars, respVars, cliVars, addVars, replVars>>

\* The child exits: after its last byte, or at once when it reads nothing,
\* and then what is in its stdin is lost.
ChildExit ==
    /\ \/ cpc = "flush" /\ held = 0
       \/ cpc = "run" /\ tool_kind = "early"
    /\ cpc' = "exited"
    /\ stdin_pipe' = 0
    /\ UNCHANGED <<pipe_data, tool_kind, wpc, unwritten, stdin_closed, held, stdout_pipe, drained>>
    /\ UNCHANGED <<wireVars, envVars, execVars, planVars, textVars, respVars, cliVars, addVars, replVars>>

(***************************************************************************)
(* The command PLAN submit (lib.rs 136-194, build_job_envelope 415-431).   *)
(* The network is what AgqClient::submit_plan did on it: the connection it *)
(* opened, the request it wrote, the reply it read.                        *)
(***************************************************************************)
\* The argument of validate in build_job_envelope.
SubmitMaxTasks == 100

\* A plan of n tasks without links.
LongPlan(n) ==
    WorkflowPlan(None, None, [k \in 1..n |-> PlanStep(k, SortCommand, <<>>, 300, None)])

\* The plans of the buffer: empty, of one task, with its own id, with a
\* link back, with a link forward, with numbers that are not 1..N, and as
\* long as validate allows and one task longer.
BufferPlans ==
    {WorkflowPlan(None, None, <<>>),
     LongPlan(1),
     WorkflowPlan(Some(<<"o", "w", "n">>), Some(<<"d">>), LongPlan(1).tasks),
     WorkflowPlan(None, None, <<PlanStep(1, SortCommand, <<>>, 300, None),
                               PlanStep(2, UniqCommand, <<>>, 300, Some(1))>>),
     WorkflowPlan(None, None, <<PlanStep(1, SortCommand, <<>>, 300, Some(2)),
                               PlanStep(2, UniqCommand, <<>>, 300, None)>>),
     WorkflowPlan(None, None, <<PlanStep(5, SortCommand, <<>>, 300, None),
                               PlanStep(7, UniqCommand, <<>>, 300, Some(5))>>),
     LongPlan(SubmitMaxTasks),
     LongPlan(SubmitMaxTasks + 1)}

\* storage.load(): the plan of the buffer, or an error.
BufferLoads == {Ok(p) : p \in BufferPlans} \cup {Err("failed to read plan buffer ", <<"io">>)}

\* AGX_AUTO_VALIDATE and what run_delta_validation returns when it is on:
\* an error, or the plan the planner made, normalized.
DeltaOutcomes ==
    {None, Some(Err("planner", <<>>)),
     Some(Ok(normalize_for_execution(WorkflowPlan(None, None, <<>>)))),
     Some(Ok(normalize_for_execution(LongPlan(1))))}

\* AGX_PLAN_DESCRIPTION: not set, empty, set.
DescriptionEnvs == {None, Some(<<>>), Some(<<"d", "2">>)}

\* What submit_plan met on the network after it had written PLAN.SUBMIT.
SubmitReplies ==
    {SimpleString(Plain("j9")), BulkString(Plain("j9")), Error(Plain("no")), Integer(7)}

\* build_job_envelope that does not validate.
build_job_envelope_unchecked(p, description_env) ==
    Ok(from_plan(p, <<"j", "1">>, <<"p", "1">>,
                 IF description_env.some /\ description_env.v # <<>>
                 THEN description_env ELSE None))

\* fn build_job_envelope: fresh ids, the description of the environment
\* unless it is empty, from_plan and validate(100).
build_job_envelope(p, description_env) ==
    LET envelope_ == from_plan(p, <<"j", "1">>, <<"p", "1">>,
                               IF description_env.some /\ description_env.v # <<>>
                               THEN description_env ELSE None)
        checked == validate(envelope_.tasks, SubmitMaxTasks)
    IN  IF checked # VOk
        THEN Err("job envelope validation failed: ", <<checked>>)
        ELSE Ok(envelope_)

NoLocals == [plan |-> None, job |-> None, submission |-> None]

CliIdle ==
    /\ cli = [op |-> "idle"]
    /\ cli_pc = "idle"
    /\ locals = NoLocals
    /\ net = <<>>
    /\ meta_file = None
    /\ printed = <<>>
    /\ cli_result = NoResult

InitPlanSubmit ==
    /\ cli \in [op : {"PLAN submit"}, json : BOOLEAN, load : BufferLoads,
                delta : DeltaOutcomes, description_env : DescriptionEnvs]
    /\ cli_pc = "load"
    /\ locals = NoLocals
    /\ net = <<>>
    /\ meta_file \in {None, Some(Plain("j0"))}
    /\ printed = <<>>
    /\ cli_result = NoResult

\* lines 137-152: storage.load()? and, when AGX_AUTO_VALIDATE is on,
\* run_delta_validation(..)?.
LoadBuffer ==
    /\ cli_pc = "load"
    /\ IF ~cli.load.ok
       THEN /\ cli_result' = cli.load
            /\ cli_pc' = "done"
            /\ UNCHANGED locals
       ELSE IF cli.delta.some
       THEN IF cli.delta.v.ok
            THEN /\ locals' = [locals EXCEPT !.plan = Some(cli.delta.v.val)]
                 /\ cli_pc' = "build"
                 /\ UNCHANGED cli_result
            ELSE /\ cli_result' = cli.delta.v
                 /\ cli_pc' = "done"
                 /\ UNCHANGED locals
       ELSE /\ locals' = [locals EXCEPT !.plan = Some(cli.load.val)]
            /\ cli_pc' = "build"
            /\ UNCHANGED cli_result
    /\ UNCHANGED <<cli, net, meta_file, printed>>
    /\ UNCHANGED <<wireVars, envVars, execVars, planVars, textVars, respVars, pipeVars, addVars, replVars>>

\* lines 154-158: build_job_envelope(plan)? and the JSON of the job.
BuildJobEnvelope ==
    /\ cli_pc = "build"
    /\ \E built \in {build_job_envelope(locals.plan.v, cli.description_env)} :
        IF built.ok
        THEN /\ locals' = [locals EXCEPT !.job = Some(built.val)]
             /\ cli_pc' = "submit"
             /\ UNCHANGED cli_result
        ELSE /\ cli_result' = built
             /\ cli_pc' = "done"
             /\ UNCHANGED locals
    /\ UNCHANGED <<cli, net, meta_file, printed>>
    /\ UNCHANGED <<wireVars, envVars, execVars, planVars, textVars, respVars, pipeVars, addVars, replVars>>

\* lines 160-163 and 190-192: client.submit_plan(&job_json), which connects,
\* writes PLAN.SUBMIT and reads the reply; an error of it is returned as
\* "PLAN submit failed".
SubmitPlan ==
    /\ cli_pc = "submit"
    /\ \/ /\ net' = <<ConnectErrEv>>
          /\ cli_result' = Err("PLAN submit failed: ", <<"failed to connect to AGQ">>)
          /\ cli_pc' = "done"
          /\ UNCHANGED locals
       \/ /\ net' = <<ConnectEv, Ev("write_err", "PLAN.SUBMIT", <<locals.job.v>>, Null)>>
          /\ cli_result' = Err("PLAN submit failed: ", <<"failed to send PLAN.SUBMIT">>)
          /\ cli_pc' = "done"
          /\ UNCHANGED locals
       \/ \E v \in SubmitReplies :
          /\ net' = <<ConnectEv, Ev("write", "PLAN.SUBMIT", <<locals.job.v>>, Null), ReadEv(v)>>
          /\ IF submit_plan_response(v).ok
             THEN /\ locals' = [locals EXCEPT !.submission = Some(submit_plan_response(v).val)]
                  /\ cli_pc' = "metadata"
                  /\ UNCHANGED cli_result
             ELSE /\ cli_result' = Err("PLAN submit failed: ", <<submit_plan_response(v).prefix>>)
                  /\ cli_pc' = "done"
                  /\ UNCHANGED locals
    /\ UNCHANGED <<cli, meta_file, printed>>
    /\ UNCHANGED <<wireVars, envVars, execVars, planVars, textVars, respVars, pipeVars, addVars, replVars>>

\* lines 164-172: storage.save_submission_metadata(&metadata)?
SaveSubmissionMetadata ==
    /\ cli_pc = "metadata"
    /\ \/ /\ meta_file' = Some(locals.submission.v.job_id)
          /\ cli_pc' = "print"
          /\ UNCHANGED cli_result
       \/ /\ cli_result' = Err("failed to write plan metadata ", <<"io">>)
          /\ cli_pc' = "done"
          /\ UNCHANGED meta_file
    /\ UNCHANGED <<cli, locals, net, printed>>
    /\ UNCHANGED <<wireVars, envVars, execVars, planVars, textVars, respVars, pipeVars, addVars, replVars>>

\* lines 174-188: the report of the submission, and Ok(()).
PrintSubmitted ==
    /\ cli_pc = "print"
    /\ printed' = Append(printed,
                         [status |-> "submitted", json |-> cli.json,
                          plan_id |-> locals.job.v.plan_id,
                          job_id |-> locals.submission.v.job_id,
                          task_count |-> Len(locals.job.v.tasks)])
    /\ cli_result' = Ok(None)
    /\ cli_pc' = "done"
    /\ UNCHANGED <<cli, locals, net, meta_file>>
    /\ UNCHANGED <<wireVars, envVars, execVars, planVars, textVars, respVars, pipeVars, addVars, replVars>>

(***************************************************************************)
(* The command PLAN add (lib.rs 195-249) and the plan buffer file.  Each   *)
(* invocation of the command is a process of its own; the file is what     *)
(* they share.  A plan in the file is its tasks.                           *)
(***************************************************************************)
MaxAdds == 3

Invocations == {1, 2}

\* What the planner's output parses to.
GeneratedPlans ==
    {LongPlan(1),
     WorkflowPlan(None, None, <<PlanStep(1, UniqCommand, <<>>, 300, None)>>),
     WorkflowPlan(None, None, <<PlanStep(1, SortCommand, <<>>, 300, None),
                               PlanStep(2, UniqCommand, <<>>, 300, Some(1)),
                               PlanStep(3, SortCommand, <<>>, 300, Some(2))>>),
     WorkflowPlan(None, None, <<PlanStep(0, SortCommand, <<>>, 300, None),
                               PlanStep(0, UniqCommand, <<>>, 60, Some(1))>>)}

\* old_number + offset and old_ref + offset on u32; the sums of the model
\* are far from 2^32.
u32_offset(n, offset) == n + offset

\* The append that moves the numbers and leaves the links.
append_tasks_links_kept(buffer_tasks, added) ==
    LET offset == Len(buffer_tasks) IN
    buffer_tasks \o
    [k \in DOMAIN added |->
        IF offset > 0
        THEN [added[k] EXCEPT !.task_number = u32_offset(added[k].task_number, offset)]
        ELSE added[k]]

\* lines 217-233: extend the buffer with the tasks and, when it was not
\* empty, add its length to their numbers and to their links.
append_tasks(buffer_tasks, added) ==
    LET offset == Len(buffer_tasks) IN
    buffer_tasks \o
    [k \in DOMAIN added |->
        IF offset > 0
        THEN [added[k] EXCEPT
                !.task_number = u32_offset(added[k].task_number, offset),
                !.input_from_task =
                    IF added[k].input_from_task.some
                    THEN Some(u32_offset(added[k].input_from_task.v, offset))
                    ELSE None]
        ELSE added[k]]

\* An invocation: its position, the tasks it generated, its buffer.
Adder(pc_, generated, buffer) == [pc |-> pc_, generated |-> generated, buffer |-> buffer]

NotInvoked == Adder("absent", <<>>, <<>>)

AddIdle ==
    /\ buffer_file = <<>>
    /\ adders = [p \in Invocations |-> NotInvoked]
    /\ saved = <<>>
    /\ invoked = 0

\* After PLAN new: one invocation, and the next when it has ended.
InitPlanAdd ==
    /\ buffer_file = <<>>
    /\ adders = [p \in Invocations |-> IF p = 1 THEN Adder("plan", <<>>, <<>>) ELSE NotInvoked]
    /\ saved = <<>>
    /\ invoked = 1

\* Two invocations at once, on a buffer after PLAN new or after an add.
InitPlanAddTwice ==
    /\ \E base \in {<<>>, LongPlan(1).tasks} :
        /\ buffer_file = base
        /\ saved = IF base = <<>> THEN <<>> ELSE <<base>>
    /\ adders = [p \in Invocations |-> Adder("plan", <<>>, <<>>)]
    /\ invoked = 2

\* lines 196-212: the planner's output, parsed and normalized; an error of
\* the input, the planner or the parser ends the command.
GeneratePlan ==
    \E p \in Invocations :
        /\ adders[p].pc = "plan"
        /\ \/ adders' = [adders EXCEPT ![p] = Adder("failed", <<>>, <<>>)]
           \/ \E parsed_ \in GeneratedPlans :
                adders' = [adders EXCEPT ![p] =
                    Adder("load", normalize_for_execution(parsed_).tasks, <<>>)]
        /\ UNCHANGED <<buffer_file, saved, invoked>>
        /\ UNCHANGED <<wireVars, envVars, execVars, planVars, textVars, respVars,
                     pipeVars, cliVars, replVars>>

\* lines 214-233: storage.load()? and the append to what was loaded.
LoadAndAppend ==
    \E p \in Invocations :
        /\ adders[p].pc = "load"
        /\ \/ adders' = [adders EXCEPT ![p].pc = "failed"]
           \/ adders' = [adders EXCEPT
                           ![p].pc = "save",
                           ![p].buffer = append_tasks(buffer_file, adders[p].generated)]
        /\ UNCHANGED <<buffer_file, saved, invoked>>
        /\ UNCHANGED <<wireVars, envVars, execVars, planVars, textVars, respVars,
                     pipeVars, cliVars, replVars>>

\* lines 240-247: storage.save(&buffer)? and the report.
SaveBuffer ==
    \E p \in Invocations :
        /\ adders[p].pc = "save"
        /\ \/ /\ adders' = [adders EXCEPT ![p].pc = "failed"]
              /\ UNCHANGED <<buffer_file, saved>>
           \/ /\ buffer_file' = adders[p].buffer
              /\ saved' = Append(saved, adders[p].generated)
              /\ adders' = [adders EXCEPT ![p].pc = "ok"]
        /\ UNCHANGED invoked
        /\ UNCHANGED <<wireVars, envVars, execVars, planVars, textVars, respVars,
                     pipeVars, cliVars, replVars>>

\* The command is run again once it has ended.
InvokeAgain ==
    /\ invoked < MaxAdds
    /\ adders[2] = NotInvoked
    /\ adders[1].pc \in {"ok", "failed"}
    /\ adders' = [adders EXCEPT ![1] = Adder("plan", <<>>, <<>>)]
    /\ invoked' = invoked + 1
    /\ UNCHANGED <<buffer_file, saved>>
    /\ UNCHANGED <<wireVars, envVars, execVars, planVars, textVars, respVars,
                     pipeVars, cliVars, replVars>>

(***************************************************************************)
(* ACTION submit: handle_action_command of lib.rs and cmd_action_submit of *)
(* repl.rs.  The command line gives a plan id, an inline input or (on the  *)
(* command line only) a file of inputs.  locals holds inputs_array and the *)
(* request; net is the traffic of the two connections of the command.      *)
(***************************************************************************)
ActionPlanIds ==
    {<<>>,
     <<[ch |-> "a", n |-> 1]>>,
     <<[ch |-> "a", n |-> 128]>>,
     <<[ch |-> "a", n |-> 128], [ch |-> "7", n |-> 1]>>,
     <<[ch |-> "U+00E9", n |-> 1]>>,
     <<[ch |-> "U+00E9", n |-> 64], [ch |-> "U+00E9", n |-> 1]>>,
     <<[ch |-> ";", n |-> 1]>>,
     <<[ch |-> "a", n |-> 1], [ch |-> "\n", n |-> 1]>>}

\* {"a":1}
ObjectText == <<"{", "\"", "a", "\"", ":", "1", "}">>

\* [1]
ArrayText == <<"[", "1", "]">>

\* []
EmptyArrayText == <<"[", "]">>

\* oops
NotJsonText == <<"o", "o", "p", "s">>

InlineInputs == {None, Some(ObjectText), Some(ArrayText), Some(NotJsonText)}

\* The file of --inputs-file: what validate_file_path, fs::metadata and
\* fs::read_to_string make of it, and its content.
FileChecks == {"path rejected", "no metadata", "too large", "unreadable"}

InputsFiles ==
    {None}
    \cup {Some([check |-> c, content |-> ArrayText]) : c \in FileChecks}
    \cup {Some([check |-> "ok", content |-> t]) :
            t \in {ArrayText, EmptyArrayText, ObjectText, NotJsonText}}

GetPlanReplies ==
    {BulkString(PlanJson("p1")), BulkString(Plain("not json")),
     Error(Plain("no such plan")), Integer(7)}

ActionSubmitReplies ==
    {BulkString(ActionJson(1, <<"j">>)), BulkString(Plain("not json")),
     Error(Plain("no")), Integer(7)}

\* lib.rs 473-488, repl.rs 800-812: the check of the plan id by the command
\* itself: None, or the error it returns.
action_plan_id_check(id) ==
    IF ~plan_id_chars_ok(id)
    THEN Some(Err("invalid plan-id: must contain only alphanumeric characters, underscore, or dash", <<>>))
    ELSE IF str_len(id) > MaxPlanIdLen
    THEN Some(Err("plan-id too long (max 128 characters)", <<>>))
    ELSE None

\* lib.rs 497-503, repl.rs 818-827: e.contains("AGQ error")
get_plan_error(front, e) ==
    IF e.prefix = "AGQ error: "
    THEN Err("Error: Plan not found", <<>>)
    ELSE IF front = "cli"
    THEN Err("Error: Cannot connect to AGQ at addr: ", <<e.prefix>>)
    ELSE Err("Error: Cannot connect to AGQ: ", <<e.prefix>>)

\* serde_json::json!([single_input])
inputs_array_unwrapped(front, inline_input, inputs_file) ==
    IF inline_input.some
    THEN IF parse_json(inline_input.v).ok THEN Ok(parse_json(inline_input.v).v)
         ELSE Err("Error: Invalid input JSON: ", <<"serde">>)
    ELSE Ok(JArray(<<>>))

\* lib.rs 506-542, repl.rs 829-835: the inputs of the request.  An inline
\* input is parsed and wrapped in an array; the file, which only the
\* command line takes, must hold an array; no input is the empty array.
inputs_array(front, inline_input, inputs_file) ==
    IF inline_input.some
    THEN IF parse_json(inline_input.v).ok
         THEN Ok(JArray(<<parse_json(inline_input.v).v>>))
         ELSE Err("Error: Invalid input JSON: ", <<"serde">>)
    ELSE IF front = "cli" /\ inputs_file.some
    THEN CASE inputs_file.v.check = "path rejected" ->
                Err("Error: invalid file path", <<>>)
           [] inputs_file.v.check \in {"no metadata", "unreadable"} ->
                Err("Error: Failed to read inputs file: file not found or not accessible", <<>>)
           [] inputs_file.v.check = "too large" ->
                Err("Error: Inputs file too large: ", <<>>)
           [] OTHER ->
                IF ~parse_json(inputs_file.v.content).ok
                THEN Err("Error: Invalid input JSON: ", <<"serde">>)
                ELSE IF parse_json(inputs_file.v.content).v.t # "array"
                THEN Err("Error: --inputs-file must contain a JSON array of inputs", <<>>)
                ELSE Ok(parse_json(inputs_file.v.content).v)
    ELSE Ok(JArray(<<>>))

\* lib.rs 550-557, repl.rs 838-845: json!({"action_id", "plan_id", "inputs"})
action_request(plan_id, inputs) ==
    [action_id |-> "action_uuid", plan_id |-> plan_id, inputs |-> inputs]

NoActionLocals == [inputs_array |-> None, request |-> None]

InitActionSubmit ==
    /\ cli \in [op : {"ACTION submit"}, front : {"cli"}, plan_id : ActionPlanIds,
                input : InlineInputs, inputs_file : InputsFiles, json : BOOLEAN]
            \cup [op : {"ACTION submit"}, front : {"repl"}, plan_id : ActionPlanIds,
                  input : InlineInputs, inputs_file : {None}, json : {FALSE}]
    /\ cli_pc = "check"
    /\ locals = NoActionLocals
    /\ net = <<>>
    /\ meta_file = None
    /\ printed = <<>>
    /\ cli_result = NoResult

\* lib.rs 473-488, repl.rs 800-812
CheckPlanId ==
    /\ cli_pc = "check"
    /\ IF action_plan_id_check(cli.plan_id).some
       THEN /\ cli_result' = action_plan_id_check(cli.plan_id).v
            /\ cli_pc' = "done"
       ELSE /\ cli_pc' = "get_plan"
            /\ UNCHANGED cli_result
    /\ UNCHANGED <<cli, locals, net, meta_file, printed>>
    /\ UNCHANGED <<wireVars, envVars, execVars, planVars, textVars, respVars, pipeVars, addVars, replVars>>

\* lib.rs 491-503, repl.rs 814-827: client.get_plan(&plan_id), which checks
\* the id itself, connects, writes PLAN.GET and reads the reply
\* (agq_client.rs 181-220).
GetPlan ==
    /\ cli_pc = "get_plan"
    /\ IF get_plan_check(cli.plan_id).some
       THEN /\ cli_result' = get_plan_error(cli.front, get_plan_check(cli.plan_id).v)
            /\ cli_pc' = "done"
            /\ UNCHANGED net
       ELSE \/ /\ net' = <<ConnectErrEv>>
               /\ cli_result' = get_plan_error(cli.front, Err("failed to connect to AGQ", <<>>))
               /\ cli_pc' = "done"
            \/ /\ net' = <<ConnectEv, Ev("write_err", "PLAN.GET", <<cli.plan_id>>, Null)>>
               /\ cli_result' = get_plan_error(cli.front, Err("failed to send PLAN.GET: ", <<>>))
               /\ cli_pc' = "done"
            \/ \E v \in GetPlanReplies :
               /\ net' = <<ConnectEv, Ev("write", "PLAN.GET", <<cli.plan_id>>, Null), ReadEv(v)>>
               /\ IF get_plan_response(v).ok
                  THEN /\ cli_pc' = "inputs"
                       /\ UNCHANGED cli_result
                  ELSE /\ cli_result' = get_plan_error(cli.front, get_plan_response(v))
                       /\ cli_pc' = "done"
    /\ UNCHANGED <<cli, locals, meta_file, printed>>
    /\ UNCHANGED <<wireVars, envVars, execVars, planVars, textVars, respVars, pipeVars, addVars, replVars>>

\* lib.rs 506-560, repl.rs 829-848: the inputs and the request built of them.
ParseInputs ==
    /\ cli_pc = "inputs"
    /\ LET r == inputs_array(cli.front, cli.input, cli.inputs_file)
       IN  IF r.ok
           THEN /\ locals' = [inputs_array |-> Some(r.val),
                              request |-> Some(action_request(cli.plan_id, r.val))]
                /\ cli_pc' = "submit"
                /\ UNCHANGED cli_result
           ELSE /\ cli_result' = r
                /\ cli_pc' = "done"
                /\ UNCHANGED locals
    /\ UNCHANGED <<cli, net, meta_file, printed>>
    /\ UNCHANGED <<wireVars, envVars, execVars, planVars, textVars, respVars, pipeVars, addVars, replVars>>

\* lib.rs 563-587, repl.rs 851-867: client.submit_action(&action_json), which
\* connects again, writes ACTION.SUBMIT and reads the reply
\* (agq_client.rs 108-130), and the report of the result.
SubmitAction ==
    /\ cli_pc = "submit"
    /\ \/ /\ net' = Append(net, ConnectErrEv)
          /\ cli_result' = Err("ACTION submit failed: ", <<"failed to connect to AGQ">>)
          /\ UNCHANGED printed
       \/ /\ net' = net \o <<ConnectEv, Ev("write_err", "ACTION.SUBMIT", <<locals.request.v>>, Null)>>
          /\ cli_result' = Err("ACTION submit failed: ", <<"failed to send ACTION.SUBMIT">>)
          /\ UNCHANGED printed
       \/ \E v \in ActionSubmitReplies :
          /\ net' = net \o <<ConnectEv, Ev("write", "ACTION.SUBMIT", <<locals.request.v>>, Null), ReadEv(v)>>
          /\ IF submit_action_response(v).ok
             THEN /\ printed' = Append(printed,
                                       [status |-> "queued", json |-> cli.json,
                                        plan_id |-> submit_action_response(v).val.name,
                                        job_ids |-> submit_action_response(v).val.ids])
                  /\ cli_result' = Ok(None)
             ELSE /\ cli_result' = Err("ACTION submit failed: ", <<submit_action_response(v).prefix>>)
                  /\ UNCHANGED printed
    /\ cli_pc' = "done"
    /\ UNCHANGED <<cli, locals, meta_file>>
    /\ UNCHANGED <<wireVars, envVars, execVars, planVars, textVars, respVars, pipeVars, addVars, replVars>>

(***************************************************************************)
(* The REPL (repl.rs): the loop of Repl::run over the lines it reads, the  *)
(* commands that change the plan of the session, submit, save and the save *)
(* on the way out.  session_plan is state.plan.tasks; state_file and       *)
(* plan_buffer are the plans of the two files on disk.                     *)
(***************************************************************************)
MaxCommands == 3

\* What generate_plan returns to add: no task, one task, two tasks with a
\* link among themselves, a task with a number of its own.
ReplGenerated ==
    {<<>>,
     <<PlanStep(1, SortCommand, <<>>, 300, None)>>,
     <<PlanStep(1, SortCommand, <<>>, 300, None),
       PlanStep(2, UniqCommand, <<>>, 300, Some(1))>>,
     <<PlanStep(7, UniqCommand, <<>>, 60, None)>>}

\* The plans of the state file a session starts with.
ResumedPlans ==
    {<<>>,
     <<PlanStep(1, SortCommand, <<>>, 300, None)>>,
     <<PlanStep(1, SortCommand, <<>>, 300, None),
       PlanStep(2, UniqCommand, <<>>, 300, Some(1))>>}

\* A line after trim and splitn(2, ' '): its first word and the rest.
ReplWords ==
    {"add", "a", "edit", "remove", "rm", "clear", "submit", "save", "preview",
     "quit", "q", "frob"}

ReplRests == {None, Some("0"), Some("1"), Some("2"), Some("9"), Some("x")}

ReplLines == [word : ReplWords, rest : ReplRests]

\* str::parse::<usize>
parse_usize(text) ==
    CASE text = "0" -> Some(0)
      [] text = "1" -> Some(1)
      [] text = "2" -> Some(2)
      [] text = "9" -> Some(9)
      [] OTHER -> None

ReplCmd(c, num) == [ok |-> TRUE, c |-> c, num |-> num]

ReplParseErr == [ok |-> FALSE, c |-> "error", num |-> 0]

\* The arm of edit and of remove: a step number from 1 on.
parse_step(c, rest) ==
    IF ~rest.some THEN ReplParseErr
    ELSE IF ~parse_usize(rest.v).some THEN ReplParseErr
    ELSE IF parse_usize(rest.v).v = 0 THEN ReplParseErr
    ELSE ReplCmd(c, parse_usize(rest.v).v)

\* ReplCommand::parse of a line that is not empty
ReplCommand_parse(line) ==
    CASE line.word \in {"add", "a"} ->
            IF line.rest.some THEN ReplCmd("Add", 0) ELSE ReplParseErr
      [] line.word = "edit" -> parse_step("Edit", line.rest)
      [] line.word \in {"remove", "rm"} -> parse_step("Remove", line.rest)
      [] line.word = "clear" -> ReplCmd("Clear", 0)
      [] line.word = "submit" -> ReplCmd("Submit", 0)
      [] line.word = "save" -> ReplCmd("Save", 0)
      [] line.word = "preview" -> ReplCmd("Preview", 0)
      [] line.word \in {"quit", "q"} -> ReplCmd("Quit", 0)
      [] OTHER -> ReplParseErr

\* The lines that parse to a command.
LinesOf(c) == {line \in ReplLines : ReplCommand_parse(line).c = c}

\* The loop of cmd_add that leaves the numbers the planner gave.
cmd_add_tasks_unnumbered(tasks, generated) == tasks \o generated

\* cmd_add, the loop over generated.tasks: task_number = start_num + i,
\* where start_num is the length of the plan and one; the sums of the model
\* are far from 2^32.
cmd_add_tasks(tasks, generated) ==
    LET start_num == Len(tasks) + 1 IN
    tasks \o [k \in DOMAIN generated |->
                [generated[k] EXCEPT !.task_number = start_num + (k - 1)]]

\* The words edit reads: none, a command, a command and an argument, and a
\* command with a shell metacharacter.
EditInputs ==
    {<<>>, << <<"w", "c">> >>, << <<"w", "c">>, <<"-", "l">> >>,
     << <<"a", ";", "b">> >>}

\* command.contains(';') || ..: U+0060 is the grave accent.
has_shell_metacharacter(command) ==
    \E k \in DOMAIN command : command[k] \in {";", "|", "&", "U+0060", "$"}

\* cmd_edit: task.command = parts[0], task.args = parts[1..]
edit_task(tasks, num, parts) ==
    [tasks EXCEPT ![num] = [@ EXCEPT !.command = parts[1],
                                     !.args = SubSeq(parts, 2, Len(parts))]]

\* Vec::remove(num - 1)
vec_remove(tasks, num) ==
    [k \in 1..(Len(tasks) - 1) |-> IF k < num THEN tasks[k] ELSE tasks[k + 1]]

\* cmd_remove: the task is taken out and the others are numbered from 1.
remove_task(tasks, num) ==
    [k \in 1..(Len(tasks) - 1) |->
        [vec_remove(tasks, num)[k] EXCEPT !.task_number = k]]

\* What a save to a file comes to.
SaveOutcomes == {"saved", "failed"}

\* save_state that leaves the state file out.
save_state_buffer_only(tasks, files, state_save, buffer_save) ==
    IF buffer_save = "failed"
    THEN [state_file |-> files.state_file, plan_buffer |-> files.plan_buffer,
          writes |-> <<>>, result |-> Err("failed to write plan buffer ", <<"io">>)]
    ELSE [state_file |-> files.state_file, plan_buffer |-> tasks,
          writes |-> <<"plan buffer">>, result |-> Ok(None)]

\* save_state: state.save()? and then plan_storage.save(&state.plan)?
save_state(tasks, files, state_save, buffer_save) ==
    IF state_save = "failed"
    THEN [state_file |-> files.state_file, plan_buffer |-> files.plan_buffer,
          writes |-> <<>>, result |-> Err("failed to write REPL state: ", <<"io">>)]
    ELSE IF buffer_save = "failed"
    THEN [state_file |-> tasks, plan_buffer |-> files.plan_buffer,
          writes |-> <<"state">>, result |-> Err("failed to write plan buffer ", <<"io">>)]
    ELSE [state_file |-> tasks, plan_buffer |-> tasks,
          writes |-> <<"state", "plan buffer">>, result |-> Ok(None)]

Files == [state_file |-> state_file, plan_buffer |-> plan_buffer]

\* What was read at the prompt last, the command it was, the plan before
\* the command and what the command returned.
Last(read, cmd, before, res) == [read |-> read, cmd |-> cmd, before |-> before, result |-> res]

ReplIdle ==
    /\ session_plan = <<>>
    /\ resumed = <<>>
    /\ state_file = <<>>
    /\ plan_buffer = <<>>
    /\ repl_pc = "idle"
    /\ commands = 0
    /\ last_cmd = Last("(none)", "(none)", <<>>, NoResult)
    /\ exit_by = "(none)"
    /\ exit_writes = <<>>
    /\ run_result = NoResult

\* Repl::new: the state of the state file, and the loop at its prompt.
InitRepl ==
    /\ resumed \in ResumedPlans
    /\ session_plan = resumed
    /\ state_file = resumed
    /\ plan_buffer = resumed
    /\ repl_pc = "readline"
    /\ commands = 0
    /\ last_cmd = Last("(none)", "(none)", <<>>, NoResult)
    /\ exit_by = "(none)"
    /\ exit_writes = <<>>
    /\ run_result = NoResult

\* The loop is at its prompt and reads a line.
AtPrompt ==
    /\ repl_pc = "readline"
    /\ commands < MaxCommands
    /\ commands' = commands + 1

\* plan_storage.save(&self.state.plan)? at the end of a command that has
\* set the plan of the session to tasks.
AutoSave(cmd, tasks) ==
    /\ session_plan' = tasks
    /\ \/ /\ plan_buffer' = tasks
          /\ last_cmd' = Last("command", cmd, session_plan, Ok(None))
       \/ /\ UNCHANGED plan_buffer
          /\ last_cmd' = Last("command", cmd, session_plan,
                          Err("failed to write plan buffer ", <<"io">>))

\* A command that returns an error before it has changed anything.
Refuse(cmd, prefix) ==
    /\ last_cmd' = Last("command", cmd, session_plan, Err(prefix, <<>>))
    /\ UNCHANGED <<session_plan, plan_buffer>>

\* run 305-309: a line that is empty after trim: continue.
BlankLine ==
    /\ AtPrompt
    /\ last_cmd' = [last_cmd EXCEPT !.read = "blank"]
    /\ UNCHANGED <<session_plan, resumed, state_file, plan_buffer, repl_pc, exit_by,
                   exit_writes, run_result>>
    /\ UNCHANGED <<wireVars, envVars, execVars, planVars, textVars, respVars, pipeVars, cliVars, addVars>>

\* run 312-318: ReplCommand::parse returns an error: continue.
UnparsableLine ==
    /\ AtPrompt
    /\ \E line \in LinesOf("error") : last_cmd' = [last_cmd EXCEPT !.read = "unparsable"]
    /\ UNCHANGED <<session_plan, resumed, state_file, plan_buffer, repl_pc, exit_by,
                   exit_writes, run_result>>
    /\ UNCHANGED <<wireVars, envVars, execVars, planVars, textVars, respVars, pipeVars, cliVars, addVars>>

\* run 333-335: Ctrl-C at the prompt.
Interrupted ==
    /\ AtPrompt
    /\ last_cmd' = [last_cmd EXCEPT !.read = "interrupted"]
    /\ UNCHANGED <<session_plan, resumed, state_file, plan_buffer, repl_pc, exit_by,
                   exit_writes, run_result>>
    /\ UNCHANGED <<wireVars, envVars, execVars, planVars, textVars, respVars, pipeVars, cliVars, addVars>>

\* run 336-339: Ctrl-D at the prompt: break.
Eof ==
    /\ repl_pc = "readline"
    /\ repl_pc' = "save_state"
    /\ exit_by' = "eof"
    /\ last_cmd' = [last_cmd EXCEPT !.read = "eof"]
    /\ UNCHANGED <<session_plan, resumed, state_file, plan_buffer, commands,
                   exit_writes, run_result>>
    /\ UNCHANGED <<wireVars, envVars, execVars, planVars, textVars, respVars, pipeVars, cliVars, addVars>>

\* run 340-342: any other error of readline: return Err.
ReadlineFailure ==
    /\ repl_pc = "readline"
    /\ repl_pc' = "returned"
    /\ exit_by' = "readline error"
    /\ run_result' = Err("readline error: ", <<"io">>)
    /\ last_cmd' = [last_cmd EXCEPT !.read = "error"]
    /\ UNCHANGED <<session_plan, resumed, state_file, plan_buffer, commands, exit_writes>>
    /\ UNCHANGED <<wireVars, envVars, execVars, planVars, textVars, respVars, pipeVars, cliVars, addVars>>

\* execute, Add: cmd_add (432-475).
CmdAdd ==
    /\ AtPrompt
    /\ \E line \in LinesOf("Add") :
        \/ Refuse("add", "plan generation failed: ")
        \/ \E generated \in ReplGenerated :
            IF generated = <<>>
            THEN Refuse("add", "no tasks generated")
            ELSE AutoSave("add", cmd_add_tasks(session_plan, generated))
    /\ UNCHANGED <<resumed, state_file, repl_pc, exit_by, exit_writes, run_result>>
    /\ UNCHANGED <<wireVars, envVars, execVars, planVars, textVars, respVars, pipeVars, cliVars, addVars>>

\* execute, Edit: cmd_edit (504-553); the new command is read with a
\* readline of its own.
CmdEdit ==
    /\ AtPrompt
    /\ \E line \in LinesOf("Edit") :
        LET num == ReplCommand_parse(line).num IN
        IF num > Len(session_plan)
        THEN Refuse("edit", "task does not exist")
        ELSE \/ Refuse("edit", "failed to read input: ")
             \/ \E parts \in EditInputs :
                 IF parts = <<>>
                 THEN Refuse("edit", "command cannot be empty")
                 ELSE IF has_shell_metacharacter(parts[1])
                 THEN Refuse("edit", "invalid characters in command (shell metacharacters not allowed)")
                 ELSE AutoSave("edit", edit_task(session_plan, num, parts))
    /\ UNCHANGED <<resumed, state_file, repl_pc, exit_by, exit_writes, run_result>>
    /\ UNCHANGED <<wireVars, envVars, execVars, planVars, textVars, respVars, pipeVars, cliVars, addVars>>

\* execute, Remove: cmd_remove (556-575).
CmdRemove ==
    /\ AtPrompt
    /\ \E line \in LinesOf("Remove") :
        LET num == ReplCommand_parse(line).num IN
        IF num > Len(session_plan)
        THEN Refuse("remove", "task does not exist")
        ELSE AutoSave("remove", remove_task(session_plan, num))
    /\ UNCHANGED <<resumed, state_file, repl_pc, exit_by, exit_writes, run_result>>
    /\ UNCHANGED <<wireVars, envVars, execVars, planVars, textVars, respVars, pipeVars, cliVars, addVars>>

\* execute, Clear: cmd_clear (578-585).
CmdClear ==
    /\ AtPrompt
    /\ \E line \in LinesOf("Clear") : AutoSave("clear", <<>>)
    /\ UNCHANGED <<resumed, state_file, repl_pc, exit_by, exit_writes, run_result>>
    /\ UNCHANGED <<wireVars, envVars, execVars, planVars, textVars, respVars, pipeVars, cliVars, addVars>>

\* execute, Submit: cmd_submit (600-667): the envelope of the plan is built
\* and validated, then sent; the plan of the session stays.
CmdSubmit ==
    /\ AtPrompt
    /\ \E line \in LinesOf("Submit") :
        IF session_plan = <<>>
        THEN Refuse("submit", "plan is empty, nothing to submit")
        ELSE IF ~build_job_envelope(WorkflowPlan(None, None, session_plan), None).ok
        THEN Refuse("submit", "failed to build job envelope: ")
        ELSE \/ Refuse("submit", "submission failed: ")
             \/ /\ last_cmd' = Last("command", "submit", session_plan, Ok(None))
                /\ UNCHANGED <<session_plan, plan_buffer>>
    /\ UNCHANGED <<resumed, state_file, repl_pc, exit_by, exit_writes, run_result>>
    /\ UNCHANGED <<wireVars, envVars, execVars, planVars, textVars, respVars, pipeVars, cliVars, addVars>>

\* execute, Save: save_state()? (386-390).
CmdSave ==
    /\ AtPrompt
    /\ \E line \in LinesOf("Save"), state_save \in SaveOutcomes, buffer_save \in SaveOutcomes :
        LET s == save_state(session_plan, Files, state_save, buffer_save) IN
        /\ state_file' = s.state_file
        /\ plan_buffer' = s.plan_buffer
        /\ last_cmd' = Last("command", "save", session_plan, s.result)
    /\ UNCHANGED <<session_plan, resumed, repl_pc, exit_by, exit_writes, run_result>>
    /\ UNCHANGED <<wireVars, envVars, execVars, planVars, textVars, respVars, pipeVars, cliVars, addVars>>

\* execute, Preview and the other commands that only report (cmd_preview
\* 478-500): Ok or an error, and nothing changed.
CmdReport ==
    /\ AtPrompt
    /\ \E line \in LinesOf("Preview") :
        \/ last_cmd' = Last("command", "preview", session_plan, Ok(None))
        \/ last_cmd' = Last("command", "preview", session_plan, Err("failed: ", <<>>))
    /\ UNCHANGED <<session_plan, resumed, state_file, plan_buffer, repl_pc, exit_by,
                   exit_writes, run_result>>
    /\ UNCHANGED <<wireVars, envVars, execVars, planVars, textVars, respVars, pipeVars, cliVars, addVars>>

\* execute, Quit: Ok(true), and run breaks out of the loop (321-326).
CmdQuit ==
    /\ repl_pc = "readline"
    /\ \E line \in LinesOf("Quit") :
        /\ last_cmd' = Last("command", "quit", session_plan, Ok(None))
        /\ repl_pc' = "save_state"
        /\ exit_by' = "quit"
    /\ UNCHANGED <<session_plan, resumed, state_file, plan_buffer, commands,
                   exit_writes, run_result>>
    /\ UNCHANGED <<wireVars, envVars, execVars, planVars, textVars, respVars, pipeVars, cliVars, addVars>>

\* run 346-350: after the loop, self.save_state()? and Ok(()).
SaveStateOnExit ==
    /\ repl_pc = "save_state"
    /\ \E state_save \in SaveOutcomes, buffer_save \in SaveOutcomes :
        LET s == save_state(session_plan, Files, state_save, buffer_save) IN
        /\ state_file' = s.state_file
        /\ plan_buffer' = s.plan_buffer
        /\ exit_writes' = exit_writes \o s.writes
        /\ run_result' = s.result
    /\ repl_pc' = "returned"
    /\ UNCHANGED <<session_plan, resumed, commands, last_cmd, exit_by>>
    /\ UNCHANGED <<wireVars, envVars, execVars, planVars, textVars, respVars, pipeVars, cliVars, addVars>>

WireIdle ==
    /\ session_key = None
    /\ call = IdleCall
    /\ pc = "idle"
    /\ log = <<>>
    /\ result = NoResult

EnvelopeIdle ==
    /\ envelope = <<>>
    /\ max_tasks = 0
    /\ verdict = NotRun

NextWire ==
    \/ submit_plan
    \/ submit_action
    \/ list_plans
    \/ get_plan
    \/ list_jobs
    \/ list_workers
    \/ queue_stats
    \/ Connect
    \/ SendAuth
    \/ ReadAuth
    \/ SendCommand
    \/ ReadResponse
    \/ Return

InitW ==
    InitWire /\ EnvelopeIdle /\ ExecIdle /\ PlanIdle
    /\ TextIdle /\ RespIdle /\ PipeIdle /\ CliIdle /\ AddIdle /\ ReplIdle

SpecWire == InitW /\ [][NextWire]_vars

NextEnvelope == Validate

InitE ==
    WireIdle /\ InitEnvelope /\ ExecIdle /\ PlanIdle
    /\ TextIdle /\ RespIdle /\ PipeIdle /\ CliIdle /\ AddIdle /\ ReplIdle

SpecEnvelope == InitE /\ [][NextEnvelope]_vars

NextExec ==
    \/ execute
    \/ StageSpawn
    \/ StageWrite
    \/ StageWait
    \/ WriteOutput
    \/ ExecReturn

InitX ==
    WireIdle /\ EnvelopeIdle /\ InitExec /\ PlanIdle
    /\ TextIdle /\ RespIdle /\ PipeIdle /\ CliIdle /\ AddIdle /\ ReplIdle

SpecExec == InitX /\ [][NextExec]_vars

NextPlan ==
    \/ Normalize
    \/ NormalizeAgain
    \/ FromPlan

InitP ==
    WireIdle /\ EnvelopeIdle /\ ExecIdle /\ InitPlan
    /\ TextIdle /\ RespIdle /\ PipeIdle /\ CliIdle /\ AddIdle /\ ReplIdle

SpecPlan == InitP /\ [][NextPlan]_vars

NextText ==
    \/ RepairIteration
    \/ RepairReturn
    \/ FromStr

InitT ==
    WireIdle /\ EnvelopeIdle /\ ExecIdle /\ PlanIdle
    /\ InitText /\ RespIdle /\ PipeIdle /\ CliIdle /\ AddIdle /\ ReplIdle

SpecText == InitT /\ [][NextText]_vars

NextCodec ==
    \/ PlanToString
    \/ ParseRawJson
    \/ Save
    \/ Load

InitC ==
    WireIdle /\ EnvelopeIdle /\ ExecIdle /\ InitCodec
    /\ TextIdle /\ RespIdle /\ PipeIdle /\ CliIdle /\ AddIdle /\ ReplIdle

SpecCodec == InitC /\ [][NextCodec]_vars

NextParse ==
    \/ FromStr
    \/ TryAllKnownForms
    \/ NormalizeParsed

InitS ==
    WireIdle /\ EnvelopeIdle /\ ExecIdle /\ PlanIdle
    /\ InitParse /\ RespIdle /\ PipeIdle /\ CliIdle /\ AddIdle /\ ReplIdle

SpecParse == InitS /\ [][NextParse]_vars

NextResp == RespArray \/ ReadRespValue

InitR ==
    WireIdle /\ EnvelopeIdle /\ ExecIdle /\ PlanIdle
    /\ TextIdle /\ InitResp /\ PipeIdle /\ CliIdle /\ AddIdle /\ ReplIdle

SpecResp == InitR /\ [][NextResp]_vars

NextPipe ==
    \/ WriteAll
    \/ WaitWithOutput
    \/ Drain
    \/ WaitReturns
    \/ ChildRead
    \/ ChildWrite
    \/ ChildEof
    \/ ChildExit

InitB ==
    WireIdle /\ EnvelopeIdle /\ ExecIdle /\ PlanIdle
    /\ TextIdle /\ RespIdle /\ InitPipe /\ CliIdle /\ AddIdle /\ ReplIdle

SpecPipe == InitB /\ [][NextPipe]_vars

\* The operating system runs whichever of the two processes can move.
SpecPipeFair == InitB /\ [][NextPipe]_vars /\ WF_vars(NextPipe)

NextPlanSubmit ==
    \/ LoadBuffer
    \/ BuildJobEnvelope
    \/ SubmitPlan
    \/ SaveSubmissionMetadata
    \/ PrintSubmitted

InitU ==
    WireIdle /\ EnvelopeIdle /\ ExecIdle /\ PlanIdle
    /\ TextIdle /\ RespIdle /\ PipeIdle /\ InitPlanSubmit /\ AddIdle /\ ReplIdle

SpecPlanSubmit == InitU /\ [][NextPlanSubmit]_vars

NextPlanAdd ==
    \/ GeneratePlan
    \/ LoadAndAppend
    \/ SaveBuffer
    \/ InvokeAgain

InitA ==
    WireIdle /\ EnvelopeIdle /\ ExecIdle /\ PlanIdle
    /\ TextIdle /\ RespIdle /\ PipeIdle /\ CliIdle /\ InitPlanAdd /\ ReplIdle

SpecPlanAdd == InitA /\ [][NextPlanAdd]_vars

NextPlanAddTwice ==
    \/ GeneratePlan
    \/ LoadAndAppend
    \/ SaveBuffer

InitA2 ==
    WireIdle /\ EnvelopeIdle /\ ExecIdle /\ PlanIdle
    /\ TextIdle /\ RespIdle /\ PipeIdle /\ CliIdle /\ InitPlanAddTwice /\ ReplIdle

SpecPlanAddTwice == InitA2 /\ [][NextPlanAddTwice]_vars

NextActionSubmit ==
    \/ CheckPlanId
    \/ GetPlan
    \/ ParseInputs
    \/ SubmitAction

InitK ==
    WireIdle /\ EnvelopeIdle /\ ExecIdle /\ PlanIdle
    /\ TextIdle /\ RespIdle /\ PipeIdle /\ InitActionSubmit /\ AddIdle /\ ReplIdle

SpecActionSubmit == InitK /\ [][NextActionSubmit]_vars

NextRepl ==
    \/ BlankLine
    \/ UnparsableLine
    \/ Interrupted
    \/ Eof
    \/ ReadlineFailure
    \/ CmdAdd
    \/ CmdEdit
    \/ CmdRemove
    \/ CmdClear
    \/ CmdSubmit
    \/ CmdSave
    \/ CmdReport
    \/ CmdQuit
    \/ SaveStateOnExit

InitL ==
    WireIdle /\ EnvelopeIdle /\ ExecIdle /\ PlanIdle
    /\ TextIdle /\ RespIdle /\ PipeIdle /\ CliIdle /\ AddIdle /\ InitRepl

SpecRepl == InitL /\ [][NextRepl]_vars

(***************************************************************************)
(* Properties of the wire client.                                          *)
(***************************************************************************)
IsWrite(e) == e.ev \in {"write", "write_err"}

IsAuthWrite(e) == IsWrite(e) /\ e.cmd = "AUTH"

IsCommandWrite(e) == IsWrite(e) /\ e.cmd # "AUTH"

Writes == {k \in DOMAIN log : IsWrite(log[k])}

Reads == {k \in DOMAIN log : log[k].ev = "read"}

\* C1: with a session key the first request written is AUTH <key>, the
\* operation's command is written only after a SimpleString or BulkString
\* reply to AUTH was read, and an Error reply to AUTH ends the call with
\* "AUTH failed" and no command written; without a key no AUTH is written.
C1_AuthBeforeCommand ==
    /\ session_key.some =>
        /\ \A k \in Writes :
            (\A j \in Writes : k <= j) =>
                /\ log[k].cmd = "AUTH"
                /\ log[k].args = <<session_key.v>>
        /\ \A k \in Writes :
            IsCommandWrite(log[k]) =>
                \E i \in Writes, j \in Reads :
                    /\ i < j /\ j < k
                    /\ IsAuthWrite(log[i])
                    /\ log[j].val.t \in {"SimpleString", "BulkString"}
                    /\ \A r \in Reads : j <= r
        /\ \A j \in Reads :
            ((\A r \in Reads : j <= r) /\ log[j].val.t = "Error") =>
                /\ \A k \in Writes : ~IsCommandWrite(log[k])
                /\ pc = "done"
                /\ ~result.ok
                /\ result.prefix = "AUTH failed: "
    /\ ~session_key.some => \A k \in Writes : ~IsAuthWrite(log[k])

\* C1: a call with a session key has written its command after AUTH.
C1_Witness ==
    /\ session_key.some
    /\ call.op = "submit_plan"
    /\ Len(log) = 4
    /\ log[4].ev = "write"
    /\ log[4].cmd = "PLAN.SUBMIT"

\* The characters of [A-Za-z0-9_-] among IdChars.
AsciiIdChars == {"a", "7", "_", "-"}

\* C2: get_plan returns an error before any connection for an id that is
\* empty, longer than 128 characters or holds a character outside
\* [A-Za-z0-9_-], and goes on to the network for every other id.
C2_GetPlanRejectsOutsideAscii ==
    call.op = "get_plan" =>
        LET id == call.arg
            bad == \/ id = <<>>
                   \/ chars_count(id) > 128
                   \/ \E k \in DOMAIN id : id[k].ch \notin AsciiIdChars
        IN  /\ bad => (pc = "done" /\ ~result.ok /\ log = <<>>)
            /\ ~bad => (pc = "done" => log # <<>>)

\* The response to the command of the call: the value read right after the
\* command was written.
HasResponse ==
    /\ Len(log) >= 2
    /\ log[Len(log)].ev = "read"
    /\ log[Len(log) - 1].ev = "write"
    /\ log[Len(log) - 1].cmd = command_name(call.op)

Response == log[Len(log)].val

\* C5: submit_action returns the mismatch error with both numbers when the
\* BulkString decodes and jobs_created differs from the number of job ids,
\* Ok with the envelope only for a BulkString that decodes with the two
\* equal, a shape error for SimpleString, Integer, Array and Null, and an
\* application error for Error.
C5_SubmitActionMismatch ==
    (call.op = "submit_action" /\ HasResponse) =>
        LET v == Response
            decodes == v.t = "BulkString" /\ v.s.kind = "action" /\ v.s.jc >= 0
        IN  /\ pc = "done"
            /\ (decodes /\ v.s.jc # Len(v.s.ids)) =>
                /\ ~result.ok
                /\ result.prefix = "ActionEnvelope validation failed: jobs_created != job_ids.len()"
                /\ result.detail = <<v.s.jc, Len(v.s.ids)>>
            /\ result.ok <=> (decodes /\ v.s.jc = Len(v.s.ids))
            /\ result.ok => result.val = v.s
            /\ v.t \in {"SimpleString", "Integer", "Array", "Null"} =>
                result.prefix = "unexpected AGQ response: "
            /\ v.t = "Error" => result.prefix = "AGQ error: "

\* C5: submit_action has read an envelope with jobs_created 2 and one id.
C5_Witness ==
    /\ call.op = "submit_action"
    /\ HasResponse
    /\ Response.t = "BulkString"
    /\ Response.s.kind = "action"
    /\ Response.s.jc = 2
    /\ Len(Response.s.ids) = 1
    /\ ~result.ok

ConnectAttempts == {k \in DOMAIN log : log[k].ev \in {"connect", "connect_err"}}

CommandWrites == {k \in Writes : IsCommandWrite(log[k])}

\* The reads (values and failures) that follow a write of the command.
CommandReads ==
    {k \in DOMAIN log :
        /\ log[k].ev \in {"read", "read_err"}
        /\ \E w \in CommandWrites : w < k}

Failures == {k \in DOMAIN log : log[k].ev \in {"connect_err", "write_err", "read_err"}}

\* The errors get_plan returns for an id before it goes to the network.
IdErrors ==
    {"invalid plan_id: must contain only alphanumeric characters, underscore, or dash",
     "plan_id cannot be empty", "plan_id too long (max 128 characters)"}

\* The error each failing step of a call returns.
FailurePrefixes(e) ==
    CASE e.ev = "connect_err" -> {"connect error: "}
      [] e.ev = "write_err" /\ e.cmd = "AUTH" -> {"failed to send AUTH: "}
      [] e.ev = "write_err" -> {"failed to send "}
      [] OTHER -> ReadErrors

\* What a call does on the network, whatever connection count it ends with:
\* never a second connection, AUTH and the command written at most once, one
\* read for a command that was written, a failing step the last step and
\* its error the result, and nothing kept once the call has returned.
OneAttempt ==
    /\ Cardinality(ConnectAttempts) <= 1
    /\ \A k \in ConnectAttempts : k = 1
    /\ Cardinality(CommandWrites) <= 1
    /\ Cardinality({k \in Writes : IsAuthWrite(log[k])}) <= 1
    /\ Cardinality(CommandReads) <= 1
    /\ (pc = "done" /\ \E w \in CommandWrites : log[w].ev = "write") =>
            Cardinality(CommandReads) = 1
    /\ \A k \in CommandWrites :
            /\ log[k].cmd = command_name(call.op)
            /\ log[k].args = request(call).args
    /\ \A k \in Failures :
            /\ k = Len(log)
            /\ pc = "done"
            /\ ~result.ok
            /\ result.prefix \in FailurePrefixes(log[k])
    /\ (HasResponse /\ ~result.ok) =>
            result.prefix \in {"AGQ error: ", "unexpected AGQ response: ",
                               "failed to parse ACTION.SUBMIT response: ",
                               "ActionEnvelope validation failed: jobs_created != job_ids.len()",
                               "failed to parse plan summary: ",
                               "unexpected item type in PLAN.LIST response: ",
                               "failed to parse plan: "}
    /\ pc = "idle" => (log = <<>> /\ call = IdleCall /\ result = NoResult)

C12_SubmitPlanMapping ==
    (call.op = "submit_plan" /\ HasResponse) =>
        LET v == Response
        IN  /\ pc = "done"
            /\ log[Len(log) - 1].cmd = "PLAN.SUBMIT"
            /\ log[Len(log) - 1].args = <<call.arg>>
            /\ result.ok <=> v.t \in {"SimpleString", "BulkString"}
            /\ result.ok => result.val = [job_id |-> v.s]
            /\ v.t = "Error" =>
                /\ result.prefix = "AGQ error: "
                /\ result.detail = <<v.s>>
            /\ v.t \in {"Integer", "Array", "Null"} =>
                /\ result.prefix = "unexpected AGQ response: "
                /\ result.prefix \notin
                     {"AGQ error: ", "connect error: ", "failed to send ",
                      "failed to read RESP: ", "empty response from AGQ"}

\* C12: submit_plan has read an Error response and returned the
\* application error.
C12_Witness ==
    /\ call.op = "submit_plan"
    /\ HasResponse
    /\ Response.t = "Error"
    /\ ~result.ok
    /\ result.detail = <<Plain("ERR denied")>>

\* C13: list_plans returns Ok exactly for an Array whose elements are all
\* BulkStrings that decode as plan summaries, and then the summaries of the
\* elements in order; for every other Array it returns an error that
\* carries no summary.
C13_ListPlansAllOrNothing ==
    (call.op = "list_plans" /\ HasResponse) =>
        LET v == Response
            good(e) == e.t = "BulkString" /\ e.s.kind = "summary"
        IN  /\ pc = "done"
            /\ result.ok <=>
                  (v.t = "Array" /\ \A k \in DOMAIN v.items : good(v.items[k]))
            /\ result.ok =>
                  /\ Len(result.val) = Len(v.items)
                  /\ \A k \in DOMAIN v.items : result.val[k] = v.items[k].s
            /\ ~result.ok => ~result.val.some
            /\ (v.t = "Array" /\ ~result.ok) =>
                  result.prefix \in {"failed to parse plan summary: ",
                                     "unexpected item type in PLAN.LIST response: "}

\* C13: list_plans has read a summary followed by an element that is none
\* and returned an error.
C13_Witness ==
    /\ call.op = "list_plans"
    /\ HasResponse
    /\ Response.t = "Array"
    /\ Len(Response.items) = 2
    /\ Response.items[1] = BulkString(SummaryJson("p1"))
    /\ Response.items[2].t # "BulkString"
    /\ ~result.ok

\* The number a decimal string spells.
RECURSIVE DecimalValue(_)
DecimalValue(digits) ==
    IF digits = <<>> THEN 0
    ELSE 10 * DecimalValue(SubSeq(digits, 1, Len(digits) - 1))
         + (CHOOSE d \in 0..9 : DigitChars[d + 1] = digits[Len(digits)])

\* The display string of an element that has one.
IsDisplayOf(str, e) ==
    IF e.t = "Integer"
    THEN /\ str.kind = "decimal"
         /\ str.ids # <<>>
         /\ (IF str.name = "-" THEN -1 ELSE 1) * DecimalValue(str.ids) = e.i
         /\ str.name = "-" <=> e.i < 0
    ELSE str = e.s

Displayable(e) == e.t \in {"SimpleString", "BulkString", "Integer"}

\* C14 as stated: for an Array response a simple query returns one display
\* string per element of the Array, in order.
C14_OneStringPerElement ==
    (call.op \in SimpleQueries /\ HasResponse /\ Response.t = "Array") =>
        /\ result.ok
        /\ Len(result.val.strings) = Len(Response.items)

\* C14: list_jobs, list_workers and queue_stats write the one-element
\* command JOBS.LIST, WORKERS.LIST, QUEUE.STATS and, for an Array response,
\* return in the variant of the operation one display string per element
\* that is a SimpleString, a BulkString or an Integer, in order (a string as
\* it is, an integer in decimal); elements of other shapes are left out.
C14_OneStringPerDisplayableElement ==
    (call.op \in SimpleQueries /\ HasResponse) =>
        LET v == Response
            kept == SelectSeq(v.items, Displayable)
        IN  /\ log[Len(log) - 1].args = <<>>
            /\ log[Len(log) - 1].cmd =
                  (CASE call.op = "list_jobs" -> "JOBS.LIST"
                     [] call.op = "list_workers" -> "WORKERS.LIST"
                     [] call.op = "queue_stats" -> "QUEUE.STATS")
            /\ v.t = "Array" =>
                  /\ result.ok
                  /\ result.val.variant =
                        (CASE call.op = "list_jobs" -> "Jobs"
                           [] call.op = "list_workers" -> "Workers"
                           [] call.op = "queue_stats" -> "QueueStats")
                  /\ Len(result.val.strings) = Len(kept)
                  /\ \A k \in DOMAIN kept : IsDisplayOf(result.val.strings[k], kept[k])

\* C14: list_workers has read an Array of a string and an integer and
\* returned two display strings.
C14_Witness ==
    /\ call.op = "list_workers"
    /\ HasResponse
    /\ Response = Array(<<SimpleString(Plain("w1")), Integer(-12)>>)
    /\ result.ok
    /\ Len(result.val.strings) = 2

(***************************************************************************)
(* Properties of JobEnvelope::validate.                                    *)
(***************************************************************************)
\* The task at k names an input that is not below its own number or is not
\* the number of a task before it.
BadRefAt(tasks, k) ==
    /\ tasks[k].input_from_task.some
    /\ \/ tasks[k].input_from_task.v >= tasks[k].task_number
       \/ ~\E j \in 1..(k - 1) : tasks[j].task_number = tasks[k].input_from_task.v

\* C3: validate returns Ok only for task numbers 1..N in order with
\* 1 <= N <= max_tasks and every input_from_task r of task k with
\* 1 <= r < k; it returns an error whenever some input_from_task is not
\* below its owner's number or is not the number of an earlier task.
C3_ValidateOkOnlyIfWellFormed ==
    verdict # NotRun =>
        /\ verdict.err = "Ok" =>
            /\ Len(envelope) >= 1
            /\ Len(envelope) <= max_tasks
            /\ \A k \in DOMAIN envelope : envelope[k].task_number = k
            /\ \A k \in DOMAIN envelope :
                envelope[k].input_from_task.some =>
                    /\ 1 <= envelope[k].input_from_task.v
                    /\ envelope[k].input_from_task.v < k
        /\ (\E k \in DOMAIN envelope : BadRefAt(envelope, k)) => verdict.err # "Ok"

\* C3: validate accepted an envelope in which a task takes its input from
\* an earlier one.
C3_Witness ==
    /\ verdict.err = "Ok"
    /\ \E k \in DOMAIN envelope : envelope[k].input_from_task.some

\* The error of the first failing check, in the order of the claim.
FirstFailingCheck(tasks, max) ==
    CASE tasks = <<>> -> "EmptyTasks"
      [] tasks # <<>> /\ tasks[1].task_number # 1 -> "FirstTaskNotOne"
      [] tasks # <<>> /\ tasks[1].task_number = 1 /\ Len(tasks) > max -> "TooManyTasks"
      [] OTHER ->
            IF \E k \in 1..(Len(tasks) - 1) :
                    tasks[k + 1].task_number - tasks[k].task_number # 1
            THEN "NonMonotonicTasks"
            ELSE IF \E k \in DOMAIN tasks : BadRefAt(tasks, k)
            THEN "BadInputReference"
            ELSE "Ok"

\* C4: validate reports the error of the first failing check in the order
\* EmptyTasks, FirstTaskNotOne, TooManyTasks, NonMonotonicTasks,
\* BadInputReference, and leaves the envelope as it was.
C4_ValidateErrorOrder ==
    [][verdict' # verdict =>
        /\ verdict'.err = FirstFailingCheck(envelope, max_tasks)
        /\ envelope' = envelope
        /\ max_tasks' = max_tasks]_vars

\* C4: an envelope longer than max_tasks whose first task is numbered 2 was
\* reported as FirstTaskNotOne.
C4_Witness ==
    /\ verdict.err = "FirstTaskNotOne"
    /\ Len(envelope) > max_tasks
    /\ envelope[1].task_number = 2

(***************************************************************************)
(* Properties of Executor::execute.                                        *)
(***************************************************************************)
Spawned == {k \in DOMAIN events : events[k].ev = "spawn"}

UnknownTasks == {k \in DOMAIN plan : ~\E t \in DOMAIN TOOLS : TOOLS[t].id = plan[k].command}

\* C6: execute on a plan with a task whose command is no tool id returns an
\* error naming that command and spawns no process for any task of the
\* plan, the tasks before the unknown one included.
C6_UnknownToolSpawnsNothing ==
    UnknownTasks # {} =>
        /\ Spawned = {}
        /\ xpc = "done" =>
            /\ ~xresult.ok
            /\ xresult.prefix = "unknown tool in plan: "
            /\ \E k \in UnknownTasks : xresult.detail = <<plan[k].command>>

\* The ok set of the tool that the task of an event resolves to.
OkCodesOf(e) == find_by_id(plan[e.stage].command).v.ok_exit_codes

ExitedOk(e) == e.status.exited /\ e.status.n \in OkCodesOf(e)

StageFailed(e) ==
    \/ e.ev \in {"spawn_err", "write_err", "wait_err"}
    \/ e.ev = "exit" /\ ~ExitedOk(e)

StageErrors ==
    {"failed to start command ", "failed to write to ", "failed to wait for ",
     "command failed with status "}

\* C7: when a stage fails (status outside the ok set, or spawn, write or
\* wait failed) execute returns an error at once: nothing happens after the
\* failure, no later task is spawned and nothing is written to the output.
C7_FailureHaltsChain ==
    \A i \in DOMAIN events :
        StageFailed(events[i]) =>
            /\ i = Len(events)
            /\ xpc = "done"
            /\ ~xresult.ok
            /\ xresult.prefix \in StageErrors
            /\ \A k \in Spawned : events[k].stage <= events[i].stage
            /\ proc_stdout = <<>>

\* C7: the first stage of a plan of two tasks exited outside its ok set.
C7_Witness ==
    /\ Len(plan) = 2
    /\ events # <<>>
    /\ events[Len(events)].ev = "exit"
    /\ events[Len(events)].stage = 1
    /\ StageFailed(events[Len(events)])

\* C8: the error for a stage that exits outside its ok set holds the
\* stage's exit status and the trimmed text it wrote to its standard error.
C8_ErrorHasStatusAndStderr ==
    xresult.prefix = "command failed with status " =>
        /\ events[Len(events)].ev = "exit"
        /\ xresult.detail[2] = events[Len(events)].status
        /\ xresult.detail[3] = trim(events[Len(events)].err)

\* The exit at i made execute return the status error.
JudgedFailed(i) ==
    /\ i = Len(events)
    /\ xpc = "done"
    /\ xresult.prefix = "command failed with status "

\* C9: a stage is a success exactly when its exit code is in the ok set of
\* its tool: grep exiting 1 goes on, a code outside the set fails, and a
\* child ended by a signal fails.
C9_SuccessByOkSet ==
    \A i \in DOMAIN events :
        events[i].ev = "exit" =>
            /\ ~JudgedFailed(i) <=> ExitedOk(events[i])
            /\ ~events[i].status.exited => JudgedFailed(i)

\* C9: a grep stage exited with 1 and the chain went on.
C9_Witness ==
    \E i \in DOMAIN events :
        /\ events[i].ev = "exit"
        /\ events[i].command = "grep"
        /\ events[i].status = Exited(1)
        /\ xpc \in {"stage", "output"}

\* C10: execute on a plan with no tasks writes exactly the input to the
\* output, spawns nothing and looks nothing up; a failed write is an error.
C10_EmptyPlanIsIdentity ==
    (plan = <<>> /\ xpc = "done") =>
        /\ events = <<>>
        /\ Len(proc_stdout) = 1
        /\ xresult.ok <=> proc_stdout[1].ok
        /\ xresult.ok => proc_stdout[1].bytes = input
        /\ ~xresult.ok => proc_stdout[1].bytes \in Prefixes(input) \cup {<<>>}

\* C10: an empty plan passed a non-empty input through.
C10_Witness ==
    /\ plan = <<>>
    /\ xpc = "done"
    /\ input = <<"x", "y">>
    /\ xresult.ok

(***************************************************************************)
(* Properties of normalize_for_execution and JobEnvelope::from_plan.       *)
(***************************************************************************)
IsBareUniq(p) == Len(p.tasks) = 1 /\ p.tasks[1].command = <<"u", "n", "i", "q">>

\* C15: the tasks of a normalized plan are numbered 1, 2, ..., N in
\* sequence order, whatever the numbers of the plan that was normalized.
C15_NumbersOneToN ==
    /\ nplan.some =>
        \A k \in 1..Len(nplan.v.tasks) : nplan.v.tasks[k].task_number = k
    /\ nplan2.some =>
        \A k \in 1..Len(nplan2.v.tasks) : nplan2.v.tasks[k].task_number = k

\* C15: a plan of two tasks numbered in descending order, the second one
\* zero, was normalized.
C15_Witness ==
    /\ ppc = "normalized"
    /\ Len(wplan.tasks) = 2
    /\ wplan.tasks[1].task_number > wplan.tasks[2].task_number
    /\ wplan.tasks[2].task_number = 0

\* C16: normalizing a normalized plan gives the same plan: the same tasks
\* with the same numbers, commands, args, timeouts and input_from_task, the
\* same plan_id and description.
C16_NormalizeIdempotent ==
    nplan2.some =>
        /\ nplan2.v.plan_id = nplan.v.plan_id
        /\ nplan2.v.plan_description = nplan.v.plan_description
        /\ Len(nplan2.v.tasks) = Len(nplan.v.tasks)
        /\ \A k \in 1..Len(nplan.v.tasks) : nplan2.v.tasks[k] = nplan.v.tasks[k]

\* C16: the plan of one uniq task was normalized twice.
C16_Witness ==
    /\ ppc = "renormalized"
    /\ IsBareUniq(wplan)
    /\ Len(nplan2.v.tasks) = 2

\* C17: a plan of exactly one task with command uniq is normalized to two
\* tasks, sort numbered 1 without input_from_task and uniq numbered 2 with
\* input_from_task 1, both with no args and timeout 300; every other plan
\* keeps its tasks in number and order with their commands, args, timeouts
\* and input_from_task, only task_number changing.
C17_BareUniqGetsSort ==
    nplan.some =>
        IF IsBareUniq(wplan)
        THEN /\ Len(nplan.v.tasks) = 2
             /\ nplan.v.tasks[1] =
                   [task_number |-> 1, command |-> <<"s", "o", "r", "t">>, args |-> <<>>,
                    timeout_secs |-> 300, input_from_task |-> None]
             /\ nplan.v.tasks[2] =
                   [task_number |-> 2, command |-> <<"u", "n", "i", "q">>, args |-> <<>>,
                    timeout_secs |-> 300, input_from_task |-> Some(1)]
        ELSE /\ Len(nplan.v.tasks) = Len(wplan.tasks)
             /\ \A k \in 1..Len(wplan.tasks) :
                    /\ nplan.v.tasks[k].command = wplan.tasks[k].command
                    /\ nplan.v.tasks[k].args = wplan.tasks[k].args
                    /\ nplan.v.tasks[k].timeout_secs = wplan.tasks[k].timeout_secs
                    /\ nplan.v.tasks[k].input_from_task = wplan.tasks[k].input_from_task

\* C17: a plan of one uniq task with an argument and a timeout of its own
\* was normalized.
C17_Witness ==
    /\ ppc = "normalized"
    /\ IsBareUniq(wplan)
    /\ wplan.tasks[1].args # <<>>
    /\ wplan.tasks[1].timeout_secs # 300

\* C18: the envelope from_plan builds has the plan's tasks in order, the
\* i-th numbered i with the command, args, timeout_secs and input_from_task
\* of the plan's i-th task, the job_id it was given, and the plan's own
\* plan_id and plan_description when the plan has them, the caller's
\* otherwise.
C18_FromPlanRenumbersAndCopies ==
    jenv.some =>
        LET e == jenv.v
        IN  /\ Len(e.tasks) = Len(wplan.tasks)
            /\ \A i \in 1..Len(wplan.tasks) :
                    /\ e.tasks[i].task_number = i
                    /\ e.tasks[i].command = wplan.tasks[i].command
                    /\ e.tasks[i].args = wplan.tasks[i].args
                    /\ e.tasks[i].timeout_secs = wplan.tasks[i].timeout_secs
                    /\ e.tasks[i].input_from_task = wplan.tasks[i].input_from_task
            /\ e.job_id = fargs.job_id
            /\ e.plan_id = (IF wplan.plan_id.some THEN wplan.plan_id.v
                            ELSE fargs.plan_id_override)
            /\ e.plan_description =
                  (IF wplan.plan_description.some THEN wplan.plan_description
                   ELSE fargs.plan_description_override)

\* C18: an envelope was built from a plan with a plan_id of its own and no
\* description, of two tasks not numbered 1, 2, with a description given by
\* the caller.
C18_Witness ==
    /\ ppc = "built"
    /\ wplan.plan_id.some
    /\ ~wplan.plan_description.some
    /\ fargs.plan_description_override.some
    /\ Len(wplan.tasks) = 2
    /\ wplan.tasks[1].task_number # 1
    /\ jenv.v.plan_id = <<"o", "w", "n">>
    /\ jenv.v.plan_description = Some(<<"d">>)

(***************************************************************************)
(* Properties of repair_unescaped_quotes and WorkflowPlan::from_str.       *)
(***************************************************************************)
\* C19: repair_unescaped_quotes returns a well-formed JSON text as it is,
\* character for character; so it does for the text
\* {"plan":[{"cmd":"cat","args":["file.txt"]}]}.
C19_RepairIdentityOnValidJson ==
    (rpc = "repaired" /\ parse_json(rtext).ok) => rst.output = rtext

\* C19: the well-formed text ["\""], a string of one escaped quote, has
\* been repaired.
C19_Witness ==
    /\ rpc = "repaired"
    /\ parse_json(rtext).ok
    /\ rtext = <<"[", "\"", "\\", "\"", "\"", "]">>
    /\ rst.output = rtext

\* Is c the first character of text at or after index i that is no
\* whitespace one of the set?
FirstNonWhitespaceIn(text, i, set) ==
    \E k \in i..Len(text) :
        /\ text[k] \in set
        /\ \A m \in i..(k - 1) : text[m] \in {" ", "\n", "\t", "\r", "U+00A0"}

\* The last iteration escaped a stray quote: it met a quote and wrote a
\* backslash and a quote for it.
EscapedStrayQuote ==
    /\ rpc = "repairing"
    /\ rtext[rprev.pos] = "\""
    /\ rst.output = rprev.output \o <<"\\", "\"">>

\* C20: from_str on the awk text succeeds by the repaired text and gives
\* one task, awk, with the one argument -F"/",NR==1;print length($NF); and
\* whenever the repair has just escaped a stray quote and the next
\* character is '/', it skips that '/' exactly when the first character
\* after it that is no whitespace is ',', ']' or '}', and otherwise copies
\* the '/' to the output in the next iteration.
C20_AwkRepairAndSlashRule ==
    /\ (rpc = "parsed" /\ rtext = BrokenExample) =>
        /\ parsed.ok
        /\ parsed.via = "repaired"
        /\ Len(parsed.plan.tasks) = 1
        /\ parsed.plan.tasks[1].command = <<"a", "w", "k">>
        /\ parsed.plan.tasks[1].args = <<RepairedArg>>
    /\ (/\ EscapedStrayQuote
        /\ rprev.pos + 1 <= Len(rtext)
        /\ rtext[rprev.pos + 1] = "/") =>
        IF FirstNonWhitespaceIn(rtext, rprev.pos + 2, {",", "]", "}"})
        THEN rst.pos = rprev.pos + 2
        ELSE rst.pos = rprev.pos + 1
    /\ (/\ rpc = "repairing"
        /\ rtext[rprev.pos] = "/") =>
        rst.output = Append(rprev.output, "/")

\* C20: from_str has returned the plan of the awk text.
C20_Witness ==
    /\ rpc = "parsed"
    /\ rtext = BrokenExample
    /\ parsed.ok

(***************************************************************************)
(* Properties of the plan written as JSON and read back.                   *)
(***************************************************************************)
\* The same tasks in the same order, with the same command, args,
\* timeout_secs and input_from_task.
SameTasks(p, q) ==
    /\ Len(q.tasks) = Len(p.tasks)
    /\ \A k \in DOMAIN p.tasks :
        /\ q.tasks[k].command = p.tasks[k].command
        /\ q.tasks[k].args = p.tasks[k].args
        /\ q.tasks[k].timeout_secs = p.tasks[k].timeout_secs
        /\ q.tasks[k].input_from_task = p.tasks[k].input_from_task

\* C21: a plan written as JSON and read back, by to_string and from_str or
\* by save and load, is read as a plan with as many tasks in the same
\* order, each with the command, args, timeout_secs and input_from_task it
\* was written with.
C21_EncodeDecodeKeepsTasks ==
    rpc \in {"parsed_raw_json", "loaded"} => (parsed.ok /\ SameTasks(wplan, parsed.plan))

\* Both ways back have been taken for a plan whose texts need escapes and
\* whose first task is numbered 0.
C21_Witness ==
    /\ rpc \in {"parsed_raw_json", "loaded"}
    /\ parsed.ok
    /\ Len(wplan.tasks) = 2
    /\ wplan.tasks[1].command = <<"a", "\"", "\\", "\n">>
    /\ wplan.tasks[1].task_number = 0
    /\ parsed.plan.tasks[1].args = <<<<"U+0008", "U+00E9", "/">>, <<>>>>
    /\ parsed.plan.tasks[2].input_from_task = Some(1)

(***************************************************************************)
(* Properties of WorkflowPlan::from_str.                                   *)
(***************************************************************************)
\* The attempts of the claim on a text, in their order: all schemas on the
\* text, on its first bracket span, on the repaired text and on the first
\* bracket span of the repaired text, the last two only for a repair that
\* changed the text.  None stands for an attempt that is not made or fails.
OnSpan(span) == IF span.some THEN try_all_known_forms(span.v) ELSE None

Attempts(text) ==
    LET repaired == repair_unescaped_quotes(text)
    IN  <<try_all_known_forms(text),
          OnSpan(extract_first_json_value(text)),
          IF repaired # text THEN try_all_known_forms(repaired) ELSE None,
          IF repaired # text THEN OnSpan(extract_first_json_value(repaired)) ELSE None>>

\* The first attempt of a that gives a plan, 0 when none does.
FirstSome(a) ==
    IF \E k \in DOMAIN a : a[k].some
    THEN CHOOSE k \in DOMAIN a : a[k].some /\ \A i \in 1..(k - 1) : ~a[i].some
    ELSE 0

\* C22: from_str strips the fence and returns the plan of the first of the
\* four attempts that gives one; it returns an error exactly when none does.
C22_FirstSuccessfulAttempt ==
    rpc = "parsed" =>
        LET a == Attempts(strip_markdown_fence(rtext))
            k == FirstSome(a)
        IN  /\ parsed.ok <=> k # 0
            /\ k # 0 => parsed.plan = a[k].v

\* from_str has returned the plan of the fourth attempt, the three before
\* it having failed, for a text with prose before unescaped quotes.
C22_Witness ==
    /\ rpc = "parsed"
    /\ rtext = PlanProse \o BrokenArrayDoc
    /\ parsed.ok
    /\ FirstSome(Attempts(strip_markdown_fence(rtext))) = 4
    /\ parsed.plan.tasks[1].command = <<"a", "\"", "b">>

(***************************************************************************)
(* Properties of try_all_known_forms.                                      *)
(***************************************************************************)
\* Which of the six forms accept a document, in the order of the claim:
\* canonical object, legacy object, simple object, array of canonical tasks,
\* array of legacy tasks, array of command strings.
Accepting(j) ==
    <<as_WorkflowPlan(j).ok, as_LegacyWorkflowPlan(j).ok, as_SimpleWorkflowPlan(j).ok,
      as_Vec_PlanStep(j).ok, as_Vec_LegacyPlanStep(j).ok, as_Vec_String(j).ok>>

\* The first form that accepts the document, 0 when none does.
FirstForm(j) ==
    IF \E k \in 1..6 : Accepting(j)[k]
    THEN CHOOSE k \in 1..6 : Accepting(j)[k] /\ \A i \in 1..(k - 1) : ~Accepting(j)[i]
    ELSE 0

\* The tasks of a plan are those of legacy steps: numbered by position, a
\* missing timeout 300, input_from_step for input_from_task.
LegacyTasks(steps, p) ==
    /\ Len(p.tasks) = Len(steps)
    /\ \A k \in DOMAIN steps :
        /\ p.tasks[k].task_number = k
        /\ p.tasks[k].command = steps[k].cmd
        /\ p.tasks[k].args = steps[k].args
        /\ p.tasks[k].timeout_secs =
              (IF steps[k].timeout_secs.some THEN steps[k].timeout_secs.v ELSE 300)
        /\ p.tasks[k].input_from_task = steps[k].input_from_step

\* The tasks of a plan are those of a list of commands.
CommandTasks(cmds, p) ==
    /\ Len(p.tasks) = Len(cmds)
    /\ \A k \in DOMAIN cmds :
        /\ p.tasks[k].task_number = k
        /\ p.tasks[k].command = cmds[k]
        /\ p.tasks[k].timeout_secs = 300

\* C23: try_all_known_forms gives the plan of the first of the six forms, in
\* their fixed order, that accepts the text, and no plan when none does; in
\* the legacy, simple and bare-string forms the tasks are numbered by
\* position, a missing timeout is 300 and input_from_step becomes
\* input_from_task.
C23_FirstAcceptingForm ==
    rpc = "tried" =>
        LET r == parse_json(rtext)
            f == IF r.ok THEN FirstForm(r.v) ELSE 0
        IN  /\ parsed.ok <=> f # 0
            /\ f = 1 => SameTasks(as_WorkflowPlan(r.v).v, parsed.plan)
            /\ f = 2 => LegacyTasks(as_LegacyWorkflowPlan(r.v).v, parsed.plan)
            /\ f = 3 => CommandTasks(as_SimpleWorkflowPlan(r.v).v, parsed.plan)
            /\ f = 4 => SameTasks([tasks |-> as_Vec_PlanStep(r.v).v], parsed.plan)
            /\ f = 5 => LegacyTasks(as_Vec_LegacyPlanStep(r.v).v, parsed.plan)
            /\ f = 6 => CommandTasks(as_Vec_String(r.v).v, parsed.plan)

\* An array whose one element is both a canonical and a legacy task has
\* been decoded as an array of canonical tasks.
C23_Witness ==
    /\ rpc = "tried"
    /\ rtext = BareCanonicalDoc
    /\ Accepting(parse_json(rtext).v) = <<FALSE, FALSE, FALSE, TRUE, TRUE, FALSE>>
    /\ parsed.ok
    /\ parsed.plan.tasks[1].command = <<"n", "e", "w">>

(***************************************************************************)
(* Properties of the bracket span (extract_first_json_value).              *)
(***************************************************************************)
HasBracket(s) == \E i \in DOMAIN s : s[i] \in {"{", "["}

\* rtext is pre, then the document d, then post.
ProseAround(pre, d, post) ==
    /\ pre \in LeadingProses \cup {Fence}
    /\ d \in Documents
    /\ post \in TrailingProses \cup {Fence}
    /\ rtext = pre \o d \o post
    /\ try_all_known_forms(d).some

\* C24 as stated: for every text made of leading prose, a document that
\* decodes under one of the forms, and trailing prose, from_str returns the
\* plan of the document.
C24_ProseDiscarded ==
    rpc = "parsed" =>
        \A pre \in LeadingProses \cup {Fence}, d \in Documents,
           post \in TrailingProses \cup {Fence} :
            ProseAround(pre, d, post) =>
                (parsed.ok /\ parsed.plan = try_all_known_forms(d).v)

\* C24, amended: from_str returns the plan of the document when the leading
\* prose holds no opening bracket and does not begin with a fence, and the
\* bracket count of the document comes back to zero at its last character
\* and not before.
C24_BracketFreeProseDiscarded ==
    rpc = "parsed" =>
        \A pre \in LeadingProses \cup {Fence}, d \in Documents,
           post \in TrailingProses \cup {Fence} :
            (/\ ProseAround(pre, d, post)
             /\ ~HasBracket(pre)
             /\ ~starts_with(pre, Fence)
             /\ extract_first_json_value(d) = Some(d)) =>
                (parsed.ok /\ parsed.plan = try_all_known_forms(d).v)

\* from_str has returned the plan of a document that stands between prose,
\* the text as a whole being no JSON.
C24_Witness ==
    /\ rpc = "parsed"
    /\ rtext = PlanProse \o LegacyDoc \o DoneProse
    /\ ~try_all_known_forms(rtext).some
    /\ extract_first_json_value(rtext) = Some(LegacyDoc)
    /\ parsed.ok
    /\ parsed.plan = try_all_known_forms(LegacyDoc).v
    /\ Len(parsed.plan.tasks) = 2

(***************************************************************************)
(* Properties of one iteration of repair_unescaped_quotes.                 *)
(***************************************************************************)
\* No character of text at or after index i but whitespace.
OnlyWhitespaceFrom(text, i) ==
    \A k \in i..Len(text) : text[k] \in {" ", "\n", "\t", "\r", "U+00A0"}

\* What an iteration does that meets no quote, and what it does for a quote
\* that opens a string or follows an unconsumed backslash.
CopiesCharacter ==
    /\ rst.pos = rprev.pos + 1
    /\ rst.output = Append(rprev.output, rtext[rprev.pos])

QuoteRulesButClosing ==
    /\ (rtext[rprev.pos] = "\"" /\ ~rprev.in_string) =>
            (CopiesCharacter /\ rst.in_string)
    /\ (rtext[rprev.pos] = "\"" /\ rprev.in_string /\ rprev.escaped) =>
            (CopiesCharacter /\ rst.in_string)
    /\ rtext[rprev.pos] # "\"" =>
            (CopiesCharacter /\ rst.in_string = rprev.in_string)

ClosesString == CopiesCharacter /\ ~rst.in_string

EscapesQuote == rst.output = rprev.output \o <<"\\", "\"">> /\ rst.in_string

\* C25 as stated: a quote outside a string opens one; a quote in a string
\* after an unconsumed backslash is copied; any other quote in a string
\* closes it only when the next character that is no whitespace is one of
\* , ] } : and is otherwise written as an escaped quote, the string left
\* open; every other character is copied.
C25_QuoteClosesOnlyBeforeDelimiter ==
    rpc = "repairing" =>
        /\ QuoteRulesButClosing
        /\ (rtext[rprev.pos] = "\"" /\ rprev.in_string /\ ~rprev.escaped) =>
            IF FirstNonWhitespaceIn(rtext, rprev.pos + 1, {",", "]", "}", ":"})
            THEN ClosesString
            ELSE EscapesQuote

\* C25, amended: such a quote closes the string also when nothing but
\* whitespace follows it to the end of the text.
C25_QuoteClosesBeforeDelimiterOrEnd ==
    rpc = "repairing" =>
        /\ QuoteRulesButClosing
        /\ (rtext[rprev.pos] = "\"" /\ rprev.in_string /\ ~rprev.escaped) =>
            IF \/ FirstNonWhitespaceIn(rtext, rprev.pos + 1, {",", "]", "}", ":"})
               \/ OnlyWhitespaceFrom(rtext, rprev.pos + 1)
            THEN ClosesString
            ELSE EscapesQuote

\* An iteration has closed a string at a quote that only whitespace
\* follows.
C25_Witness ==
    /\ rpc = "repairing"
    /\ rtext = <<"\"", ",", "\"", " ">>
    /\ rprev.pos = 3
    /\ rprev.in_string
    /\ ~rprev.escaped
    /\ rst.output = <<"\"", ",", "\"">>
    /\ ~rst.in_string

(***************************************************************************)
(* Properties of from_str followed by normalize_for_execution.             *)
(***************************************************************************)
\* The link of task k of tasks names the number of a task before it.
LinkPointsBack(tasks, k) ==
    \E i \in 1..(k - 1) :
        /\ tasks[i].task_number = tasks[k].input_from_task.v
        /\ tasks[i].task_number < tasks[k].task_number

\* C26: in the plan from_str and then normalize_for_execution give, every
\* input_from_task names a smaller task_number, that of a task earlier in
\* the plan; and a link that named an earlier task under the numbers of the
\* input names the same task after the renumbering.
C26_LinksPointBackAfterNormalize ==
    rpc = "normalized" =>
        \A k \in DOMAIN nplan.v.tasks :
            nplan.v.tasks[k].input_from_task.some =>
                /\ LinkPointsBack(nplan.v.tasks, k)
                /\ \A i \in 1..(k - 1) :
                    (/\ Len(parsed.plan.tasks) = Len(nplan.v.tasks)
                     /\ parsed.plan.tasks[i].task_number
                            = parsed.plan.tasks[k].input_from_task.v)
                        => nplan.v.tasks[i].task_number = nplan.v.tasks[k].input_from_task.v

----------------------------------------------------------------------------
(***************************************************************************)
(* Properties of the bytes of the wire.                                    *)
(***************************************************************************)
\* The bytes of the reader from position at on begin with bytes.
StartsAt(at, bytes) ==
    /\ at + Len(bytes) - 1 <= Len(rbytes)
    /\ SubSeq(rbytes, at, at + Len(bytes) - 1) = bytes

\* The header line of a bulk string or an array.
HeaderLine(tag, n) ==
    <<tag>> \o (IF n < 0 THEN <<"-">> \o count_digits(0 - n) ELSE count_digits(n)) \o CRLF

\* The values read one after the other from position pos on, count of them
\* or up to the first that is none.
RECURSIVE Elements(_, _)
Elements(pos, count) ==
    IF count = 0 THEN <<>>
    ELSE Only({IF e.kind # "ok" THEN <<e>>
               ELSE <<e>> \o Elements(e.next, count - 1)
               : e \in {read_resp_value(rbytes, pos)}})

\* A call read a bulk string of the right type that ends after the line
\* end which follows its payload.
FramedBulk(call_, p) ==
    /\ call_.r.kind = "ok"
    /\ call_.r.value.t = "BulkString"
    /\ call_.r.next = call_.at + Len(HeaderLine("$", Len(p))) + Len(p) + 2

\* What is claimed of lengths of -1, of streams too short and of arrays.
NullShortAndArrays(call_) ==
    /\ StartsAt(call_.at, HeaderLine("$", -1))
        => /\ call_.r.kind = "ok" /\ call_.r.value = Null
           /\ call_.r.next = call_.at + Len(HeaderLine("$", -1))
    /\ \A n \in 0..(MaxPayload + 1) :
        (/\ StartsAt(call_.at, HeaderLine("$", n))
         /\ Len(rbytes) < call_.at + Len(HeaderLine("$", n)) + n + 1)
        => call_.r.kind = "err"
    /\ StartsAt(call_.at, HeaderLine("*", -1))
        => call_.r.kind = "ok" /\ call_.r.value = Null
    /\ \A n \in 0..2 :
        StartsAt(call_.at, HeaderLine("*", n))
        => \E es \in {Elements(call_.at + Len(HeaderLine("*", n)), n)} :
            IF \A k \in DOMAIN es : es[k].kind = "ok"
            THEN /\ call_.r.kind = "ok"
                 /\ call_.r.value.t = "Array"
                 /\ Len(call_.r.value.items) = n
                 /\ \A k \in 1..n : call_.r.value.items[k] = es[k].value
                 /\ call_.r.next = IF n = 0 THEN call_.at + Len(HeaderLine("*", n))
                                   ELSE es[n].next
            ELSE call_.r.kind # "ok"

\* Each call begins where the call before it ended.
ReadsFollow ==
    /\ reads # <<>> => reads[1].at = 1
    /\ \A k \in DOMAIN reads : k > 1 => reads[k].at = reads[k - 1].r.next

ByteLength(s) == Len(s) + Cardinality({k \in DOMAIN s : s[k] = "U+00E9"})

\* $<byte length> CR LF <bytes> CR LF, the bytes of U+00E9 being 0xC3 0xA9.
EncodedItem(s) ==
    HeaderLine("$", ByteLength(s))
    \o Flatten([k \in DOMAIN s |-> IF s[k] = "U+00E9" THEN <<"0xC3", "0xA9">> ELSE <<s[k]>>])
    \o CRLF

\* C28: the bytes resp_array writes for items are *<n> CR LF and, for each
\* item, $<byte length> CR LF <bytes> CR LF; read_resp_value over them
\* returns the Array of the BulkStrings of the items, in order, and leaves
\* the reader at the end of the bytes.
C28_RequestRoundTrips ==
    sitems.some =>
        /\ rbytes = HeaderLine("*", Len(sitems.v))
                    \o Flatten([k \in DOMAIN sitems.v |-> EncodedItem(sitems.v[k])])
        /\ reads # <<>> =>
            /\ reads[1].r.kind = "ok"
            /\ reads[1].r.value.t = "Array"
            /\ Len(reads[1].r.value.items) = Len(sitems.v)
            /\ \A k \in DOMAIN sitems.v :
                reads[1].r.value.items[k] = BulkString(sitems.v[k])
            /\ reads[1].r.next = Len(rbytes) + 1

\* Read back: an empty string and the string of U+00E9 and CR, which is
\* three bytes long.
C28_Witness ==
    /\ sitems = Some(<< <<>>, <<"U+00E9", "\r">> >>)
    /\ Len(reads) = 1
    /\ reads[1].r.kind = "ok"
    /\ reads[1].r.value.items[2].s = <<"U+00E9", "\r">>
    /\ SubSeq(rbytes, 11, 14) = <<"$", "3", "\r", "\n">>

\* The reply to AUTH: the first value read in a call with a session key.
AuthReplyReads == {j \in Reads : session_key.some /\ \A r \in Reads : j <= r}

\* C29: with a session key, a reply to AUTH that is an Integer, an Array or
\* Null ends the call with the error "unexpected AUTH response", which is
\* not the error "AUTH failed" that an Error reply ends it with, and the
\* operation's own command is written after neither.
C29_UnexpectedAuthReplyIsProtocolError ==
    \A j \in AuthReplyReads :
        /\ log[j].val.t \in {"Integer", "Array", "Null"} =>
            /\ pc = "done"
            /\ ~result.ok
            /\ result.prefix = "unexpected AUTH response: "
            /\ \A k \in Writes : ~IsCommandWrite(log[k])
        /\ log[j].val.t = "Error" =>
            /\ pc = "done"
            /\ ~result.ok
            /\ result.prefix # "unexpected AUTH response: "
            /\ \A k \in Writes : ~IsCommandWrite(log[k])

\* The reply to AUTH was an Integer and the call has ended.
C29_Witness ==
    /\ session_key.some
    /\ pc = "done"
    /\ Len(log) >= 2
    /\ log[Len(log)] = ReadEv(Integer(7))
    /\ IsAuthWrite(log[Len(log) - 1])
    /\ result.prefix = "unexpected AUTH response: "

\* The errors of read_resp_value, by the prefix of their format strings.
ReadRespErrors ==
    {"failed to read RESP: ", "empty response from AGQ", "invalid RESP integer: ",
     "invalid RESP bulk length: ", "failed to read bulk body: ",
     "invalid RESP array length: ", "unsupported RESP prefix: "}

\* C30: over whatever bytes the server sent, a call of read_resp_value
\* returns a value or one of its errors; it does not panic.
C30_ReadReturnsValueOrError ==
    \A k \in DOMAIN reads :
        \/ reads[k].r.kind = "ok"
        \/ reads[k].r.kind = "err" /\ reads[k].r.prefix \in ReadRespErrors

(***************************************************************************)
(* Properties of a run of Executor::execute as a whole.                    *)
(***************************************************************************)
\* The five events of stage k of a run in which every stage succeeded.
StageEvents(k) == SubSeq(events, 5 * (k - 1) + 1, 5 * k)

\* C31: when execute returns Ok for a plan of N >= 1 tasks, the stages ran
\* one at a time in plan order, each spawned after the one before it had
\* exited; stage 1 took the input from its stdin and stage k + 1 what
\* stage k wrote to its stdout, whatever input_from_task and timeout_secs
\* of the tasks say; and what the last stage wrote is written to the
\* output, once.  At every moment of a run a child is spawned only after
\* the children of all earlier stages have exited.
C31_StagesChainInOrder ==
    /\ \A i \in Spawned :
        \A k \in 1..(events[i].stage - 1) :
            \E j \in 1..(i - 1) : events[j].ev = "exit" /\ events[j].stage = k
    /\ (xpc = "done" /\ xresult.ok /\ plan # <<>>) =>
        /\ Len(events) = 5 * Len(plan)
        /\ \A k \in DOMAIN plan :
            /\ [e \in 1..5 |-> StageEvents(k)[e].ev]
                    = <<"lookup", "spawn", "stdin", "stdout", "exit">>
            /\ \A e \in 1..5 : StageEvents(k)[e].stage = k
            /\ StageEvents(k)[1].command = plan[k].command
            /\ StageEvents(k)[3].bytes =
                    IF k = 1 THEN input ELSE StageEvents(k - 1)[4].bytes
        /\ proc_stdout = <<WriteRec(StageEvents(Len(plan))[4].bytes, TRUE)>>

\* A plan of three tasks that all name task 1 as their input ran to its
\* end; the first stage wrote x and the second z, which the third took.
C31_Witness ==
    /\ xpc = "done"
    /\ xresult.ok
    /\ Len(plan) = 3
    /\ plan[3].input_from_task = Some(1)
    /\ plan[3].timeout_secs = 0
    /\ input = <<"x", "y">>
    /\ StageEvents(1)[4].bytes = <<"x">>
    /\ StageEvents(2)[4].bytes = <<"z">>
    /\ StageEvents(3)[3].bytes = <<"z">>

(***************************************************************************)
(* Properties of a stage over bounded pipes.                               *)
(***************************************************************************)
\* write_all cannot go on: it has bytes left and the stdin pipe is full.
WriterBlocked == wpc = "write_all" /\ unwritten > 0 /\ stdin_pipe = PipeCap /\ cpc # "exited"

\* The child cannot go on and reads nothing: it has a byte to write and
\* the stdout pipe, which nothing reads, is full.
ChildBlocked == cpc = "run" /\ held > 0 /\ stdout_pipe = PipeCap

Jammed == WriterBlocked /\ ChildBlocked

\* execute has returned from the stage, with the output or with an error.
StageReturned == wpc \in {"ok", "err"}

\* C32: execute reads nothing of the child's stdout before write_all has
\* returned; once write_all and the child are both blocked on a full pipe
\* they stay so for ever and execute does not return, although the child
\* only waits for room in its stdout; and when the data are no more than a
\* pipe holds, execute returns from the stage.
C32_FullPipesJamForEver ==
    /\ [](wpc = "write_all" => drained = 0)
    /\ [](Jammed => [](Jammed /\ ~StageReturned))
    /\ [](pipe_data <= PipeCap => <>StageReturned)

\* Both are blocked: the data are more than the two pipes and the child
\* hold, and the child is one that would go on if its stdout were read.
C32_Witness ==
    /\ Jammed
    /\ tool_kind = "streaming"
    /\ pipe_data = 2 * PipeCap + 2
    /\ drained = 0

(***************************************************************************)
(* Properties of the command PLAN submit.                                  *)
(***************************************************************************)
\* The plan of which the envelope is built: that of the buffer, or the one
\* the Delta validation put in its place.
SubmittedPlan == IF cli.delta.some THEN cli.delta.v.val ELSE cli.load.val

\* Once numbered 1..N, a plan that validate(100) refuses: it has no task,
\* more than 100 tasks, or a link that does not point back.
Refused(p) ==
    \/ p.tasks = <<>>
    \/ Len(p.tasks) > 100
    \/ \E k \in DOMAIN p.tasks :
        /\ p.tasks[k].input_from_task.some
        /\ ~(p.tasks[k].input_from_task.v \in 1..(k - 1))

SentPlanSubmit == {k \in DOMAIN net : net[k].cmd = "PLAN.SUBMIT"}

\* submit_plan read a reply that is a job id.
JobIdReturned ==
    \E k \in DOMAIN net :
        /\ net[k].ev = "read"
        /\ net[k].val.t \in {"SimpleString", "BulkString"}
        /\ locals.submission = Some([job_id |-> net[k].val.s])
        /\ \E j \in 1..(k - 1) : net[j].ev = "write" /\ net[j].cmd = "PLAN.SUBMIT"

\* C33: PLAN.SUBMIT is written only with an envelope that passed
\* validate(100); when the plan is empty, longer than 100 tasks or has a bad
\* link, the command fails with no connection opened and the metadata file
\* as it was; the metadata are written only after submit_plan returned a
\* job id, and hold it; and the command reports success and returns Ok
\* only when the submission and the write of the metadata both succeeded.
C33_SubmitOnlyValidated ==
    /\ \A k \in SentPlanSubmit :
        /\ locals.job.some
        /\ net[k].args = <<locals.job.v>>
        /\ validate(locals.job.v.tasks, 100) = VOk
        /\ ~Refused(SubmittedPlan)
        /\ locals.job.v.tasks = from_plan(SubmittedPlan, <<>>, <<>>, None).tasks
    /\ (cli_pc = "done" /\ locals.plan.some /\ Refused(locals.plan.v)) =>
        /\ ~cli_result.ok
        /\ cli_result.prefix = "job envelope validation failed: "
        /\ net = <<>>
        /\ meta_file \in {None, Some(Plain("j0"))}
        /\ printed = <<>>
    /\ meta_file \notin {None, Some(Plain("j0"))} =>
        /\ JobIdReturned
        /\ meta_file = Some(locals.submission.v.job_id)
    /\ (printed # <<>> \/ cli_result.ok) =>
        /\ cli_pc = "done"
        /\ cli_result.ok
        /\ Len(printed) = 1
        /\ JobIdReturned
        /\ meta_file = Some(printed[1].job_id)
        /\ printed[1].job_id = locals.submission.v.job_id

\* A plan of 101 tasks was refused.
Refused101 ==
    /\ cli_pc = "done"
    /\ ~cli.delta.some
    /\ cli.load.ok
    /\ Len(cli.load.val.tasks) = 101
    /\ cli_result.prefix = "job envelope validation failed: "
    /\ cli_result.detail = <<VErr("TooManyTasks", 101)>>

\* A plan of 100 tasks was submitted, its job id written and reported.
C33_Witness ==
    /\ cli_pc = "done"
    /\ cli_result.ok
    /\ Len(locals.job.v.tasks) = 100
    /\ net[2].ev = "write"
    /\ meta_file = Some(Plain("j9"))
    /\ printed # <<>>

(***************************************************************************)
(* Properties of the command PLAN add.                                     *)
(***************************************************************************)
\* The number of tasks of the first n of the task lists.
RECURSIVE TasksBefore(_, _)
TasksBefore(lists, n) == IF n = 0 THEN 0 ELSE TasksBefore(lists, n - 1) + Len(lists[n])

\* The tasks in the lists, each list in turn, its tasks numbered on from
\* the tasks before it and its links moved by as much.
Chained(lists) ==
    [i \in 1..TasksBefore(lists, Len(lists)) |->
        LET n == CHOOSE n \in DOMAIN lists :
                    TasksBefore(lists, n - 1) < i /\ i <= TasksBefore(lists, n)
            before == TasksBefore(lists, n - 1)
            task == lists[n][i - before]
        IN  [task_number |-> before + task.task_number,
             command |-> task.command,
             args |-> task.args,
             timeout_secs |-> task.timeout_secs,
             input_from_task |-> IF task.input_from_task.some
                                 THEN Some(before + task.input_from_task.v) ELSE None]]

\* The links of the tasks point back at tasks of the list.
LinksValid(tasks) ==
    \A k \in DOMAIN tasks :
        tasks[k].input_from_task.some => tasks[k].input_from_task.v \in 1..(k - 1)

\* C34: from PLAN new on, with one PLAN add after the other, the buffer is
\* the added task lists (each numbered 1..M) in the order they were added:
\* the tasks that were there are as they were, the M added to N are
\* numbered N+1..N+M in order and a link r of theirs is r+N; so the numbers
\* of the buffer are 1..total and the links of the added lists, which
\* pointed back, point back.
C34_AddKeepsNumbersAndLinks ==
    /\ \A n \in DOMAIN saved :
        /\ \A k \in DOMAIN saved[n] : saved[n][k].task_number = k
        /\ LinksValid(saved[n])
    /\ buffer_file = Chained(saved)
    /\ \A k \in DOMAIN buffer_file : buffer_file[k].task_number = k
    /\ LinksValid(buffer_file)

\* Three adds were saved, the last of three tasks linked in a chain, after
\* a first of two.
C34_Witness ==
    /\ Len(saved) = 3
    /\ Len(saved[1]) = 2
    /\ Len(saved[3]) = 3
    /\ Len(buffer_file) >= 6
    /\ buffer_file[Len(buffer_file)].input_from_task = Some(Len(buffer_file) - 1)
    /\ adders[1].pc = "ok"

\* Both invocations have ended and each has saved.
BothSaved == \A p \in Invocations : adders[p].pc = "ok"

\* C35: when two invocations of PLAN add ran at once and both succeeded,
\* the buffer is what the two make of it one after the other, in one
\* order or the other: the tasks of the buffer before them and of both,
\* numbered 1..total.
C35_ConcurrentAddsSerializable ==
    BothSaved =>
        \E first \in Invocations, second \in Invocations :
            /\ first # second
            /\ buffer_file =
                    Chained(SubSeq(saved, 1, Len(saved) - 2)
                            \o <<adders[first].generated, adders[second].generated>>)


(***************************************************************************)
(* ACTION submit: the order of its steps.                                  *)
(***************************************************************************)
\* The places of the traffic where a command was written, or was tried.
Sent(cmd) == {k \in DOMAIN net : net[k].ev \in {"write", "write_err"} /\ net[k].cmd = cmd}

Connections == {k \in DOMAIN net : net[k].ev \in {"connect", "connect_err"}}

\* The plan id passes the check of its characters and its length.
PlanIdPasses(id) ==
    /\ \A k \in DOMAIN id : is_alphanumeric(id[k].ch) \/ id[k].ch \in {"_", "-"}
    /\ id # <<>>
    /\ str_len(id) <= MaxPlanIdLen

\* The input of the command line is JSON: the inline input when there is
\* one, else the array of the file when there is one.
InputIsValid ==
    IF cli.input.some THEN parse_json(cli.input.v).ok
    ELSE cli.inputs_file.some =>
            /\ cli.inputs_file.v.check = "ok"
            /\ parse_json(cli.inputs_file.v.content).ok
            /\ parse_json(cli.inputs_file.v.content).v.t = "array"

\* The inputs the request is to carry.
InputsOfCommand ==
    IF cli.input.some THEN JArray(<<parse_json(cli.input.v).v>>)
    ELSE IF cli.inputs_file.some THEN parse_json(cli.inputs_file.v.content).v
    ELSE JArray(<<>>)

C37_LinksStayValid ==
    (repl_pc # "idle" /\ resumed = <<>>) =>
        /\ LinksValid(session_plan)
        /\ (session_plan # <<>> /\ Len(session_plan) <= SubmitMaxTasks) =>
                build_job_envelope(WorkflowPlan(None, None, session_plan), None).ok

\* C38: in a session that started with a plan numbered 1..N, the tasks of
\* the plan of the session are numbered 1..len in their order after every
\* command, whether it returned Ok or an error.
C38_NumbersAreOneToLen ==
    repl_pc # "idle" =>
        \A k \in DOMAIN session_plan : session_plan[k].task_number = k

\* An add gave its task, which the planner numbered 7, the number 3 in a
\* plan of two tasks, and a remove then numbered the remaining tasks 1, 2.
C38_Witness ==
    /\ resumed # <<>>
    /\ last_cmd.cmd = "remove"
    /\ last_cmd.result.ok
    /\ Len(last_cmd.before) = 3
    /\ last_cmd.before[3].command = UniqCommand
    /\ last_cmd.before[3].timeout_secs = 60
    /\ Len(session_plan) = 2
    /\ session_plan[2].command = UniqCommand
    /\ session_plan[2].timeout_secs = 60

\* C39: when add, edit, remove or clear returns an error, the plan of the
\* session is what it was before the command.
C39_ErrorLeavesPlan ==
    (/\ last_cmd.cmd \in {"add", "edit", "remove", "clear"}
     /\ ~last_cmd.result.ok) => session_plan = last_cmd.before


(***************************************************************************)
(* The REPL: how the loop ends.                                            *)
(***************************************************************************)
\* What was read last is what ends the loop: quit, Ctrl-D or an error of
\* readline; after anything else the loop is at its prompt.
LoopEndsOnlyOnExit ==
    /\ repl_pc = "readline" =>
        /\ exit_by = "(none)"
        /\ last_cmd.read \in {"(none)", "blank", "unparsable", "interrupted", "command"}
        /\ last_cmd.cmd # "quit"
        /\ exit_writes = <<>>
    /\ repl_pc \in {"save_state", "returned"} =>
        \/ exit_by = "quit" /\ last_cmd.read = "command" /\ last_cmd.cmd = "quit"
        \/ exit_by = "eof" /\ last_cmd.read = "eof"
        \/ exit_by = "readline error" /\ last_cmd.read = "error"
    /\ repl_pc = "save_state" => (exit_by \in {"quit", "eof"} /\ exit_writes = <<>>)

\* After an error of readline run has returned it and has written no file.
ReadlineFailureSavesNothing ==
    (repl_pc = "returned" /\ exit_by = "readline error") =>
        /\ exit_writes = <<>>
        /\ ~run_result.ok
        /\ run_result.prefix = "readline error: "

\* C40 as stated: the loop ends only on quit, Ctrl-D or an error of
\* readline; when run has returned after quit or Ctrl-D the state file and
\* the plan buffer were each written once, after the loop, and hold the plan
\* of the session; after an error of readline nothing was written.
C40_ExitSavesBothFiles ==
    /\ LoopEndsOnlyOnExit
    /\ ReadlineFailureSavesNothing
    /\ (repl_pc = "returned" /\ exit_by \in {"quit", "eof"}) =>
        /\ exit_writes = <<"state", "plan buffer">>
        /\ state_file = session_plan
        /\ plan_buffer = session_plan

\* C40, amended: the loop ends only on quit, Ctrl-D or an error of
\* readline; after quit or Ctrl-D save_state runs once, after the loop: it
\* writes the state file and then the plan buffer, each at most once, and
\* stops at the first write that fails, so that run returns Ok exactly when
\* both files were written and hold the plan of the session, and returns
\* the error otherwise; after an error of readline nothing was written.
C40_ExitSavesOnceAndStopsAtFailure ==
    /\ LoopEndsOnlyOnExit
    /\ ReadlineFailureSavesNothing
    /\ (repl_pc = "returned" /\ exit_by \in {"quit", "eof"}) =>
        /\ exit_writes \in {<<>>, <<"state">>, <<"state", "plan buffer">>}
        /\ run_result.ok <=> exit_writes = <<"state", "plan buffer">>
        /\ Len(exit_writes) >= 1 => state_file = session_plan
        /\ Len(exit_writes) = 2 => plan_buffer = session_plan
        /\ Len(exit_writes) = 0 => run_result.prefix = "failed to write REPL state: "
        /\ Len(exit_writes) = 1 => run_result.prefix = "failed to write plan buffer "

\* After an add Ctrl-D ended the loop, the state file was written and the
\* write of the plan buffer failed: run returned the error and the plan
\* buffer is not the plan of the session.
C40_Witness ==
    /\ repl_pc = "returned"
    /\ exit_by = "eof"
    /\ last_cmd.cmd = "add"
    /\ exit_writes = <<"state">>
    /\ ~run_result.ok
    /\ state_file = session_plan
    /\ plan_buffer # session_plan

============================================================================
